---- MODULE Spec2Model ----
(***************************************************************************)
(* Model of the NLP engine's request orchestrator                          *)
(* (src/backend/nlp-engine/src/services/language_processor.py).            *)
(*                                                                         *)
(* One process_text invocation is a coroutine on a single event loop: it   *)
(* runs atomically between suspension points.  Its suspension points are   *)
(* the semaphore acquisition (only when the semaphore is locked) and the   *)
(* gather of the two inference calls, which run in worker threads and      *)
(* therefore complete in any order.                                        *)
(*                                                                         *)
(* Confidences are integers in hundredths (95 stands for 0.95); means and  *)
(* halves are exact fractions [num, den].  Wall-clock values (request_id,  *)
(* processing_time, average_latency) are not part of the state.            *)
(***************************************************************************)
EXTENDS Integers, Sequences, FiniteSets, TLC

\* ----------------------------------------------------------------------
\* Program constants
\* ----------------------------------------------------------------------

\* config/settings.py: DEFAULT_MAX_SEQUENCE_LENGTH
DEFAULT_MAX_SEQUENCE_LENGTH == 512

\* config/settings.py: DEFAULT_BATCH_SIZE
DEFAULT_BATCH_SIZE == 32

\* config/settings.py: DEFAULT_CONFIDENCE_THRESHOLD (0.95, in hundredths)
DEFAULT_CONFIDENCE_THRESHOLD == 95

\* LanguageProcessor.__init__: asyncio.Semaphore(10)
SemaphoreSlots == 10

\* models/intent_classifier.py: INTENT_LABELS
INTENT_LABELS ==
    {"create_agent", "modify_agent", "delete_agent",
     "query_status", "configure_integration", "help"}

\* models/entity_extractor.py: ENTITY_TYPES (its keys)
ENTITY_TYPES ==
    {"AGENT_NAME", "INTEGRATION_TYPE", "PARAMETER", "SCHEDULE", "ACTION", "CONDITION"}

\* ----------------------------------------------------------------------
\* Bounds of the model
\* ----------------------------------------------------------------------

\* largest number of process_text invocations of a workload submitted to a
\* fresh processor: the items of one batch and at most one single call
MaxReq == 2

\* longest entity list the validation specification enumerates
MaxEntities == 2

\* ----------------------------------------------------------------------
\* Python values
\* ----------------------------------------------------------------------

\* None, as the value of metrics['last_error']
None == "None"

Str(n) == [type |-> "str", len |-> n]
NoneText == [type |-> "NoneType", len |-> 0]
ListText(n) == [type |-> "list", len |-> n]

\* len(x) is defined
HasLen(t) == t.type # "NoneType"
\* bool(x)
Truthy(t) == t.type # "NoneType" /\ t.len > 0
\* isinstance(x, str)
IsStr(t) == t.type = "str"

\* an exception of class cls whose str() is msg
Exc(cls, msg) == [raised |-> TRUE, cls |-> cls, msg |-> msg]
\* normal completion of a call with value v
Ret(v) == [raised |-> FALSE, value |-> v]

\* dict.get(key, default) on a record
Get(d, key, default) == IF key \in DOMAIN d THEN d[key] ELSE default

RECURSIVE SumConf(_)
\* sum(entity_confidences), entity_confidences = [e.get('confidence', 0) ...]
SumConf(es) ==
    IF es = << >> THEN 0
    ELSE Get(Head(es), "confidence", 0) + SumConf(Tail(es))

\* ----------------------------------------------------------------------
\* LanguageProcessor._validate_results
\* ----------------------------------------------------------------------

\* the required_entities table of _validate_results
required_entities ==
    [create_agent |-> {"AGENT_NAME", "INTEGRATION_TYPE"},
     modify_agent |-> {"AGENT_NAME"},
     delete_agent |-> {"AGENT_NAME"},
     configure_integration |-> {"INTEGRATION_TYPE"}]

\* AvgEntityConfidence without the division by len
AvgEntityConfidenceSum(entities_result) ==
    [num |-> SumConf(entities_result), den |-> 1]

\* avg_entity_confidence: sum / len, or 0 for an empty list
AvgEntityConfidence(entities_result) ==
    IF entities_result # << >>
    THEN [num |-> SumConf(entities_result), den |-> Len(entities_result)]
    ELSE [num |-> 0, den |-> 1]

\* overall_confidence = (intent_confidence + avg_entity_confidence) / 2
OverallConfidence(intent_confidence, avg) ==
    [num |-> intent_confidence * avg.den + avg.num, den |-> 2 * avg.den]

\* MissingTypes with the found types not subtracted
MissingTypesAllRequired(intent, entities_result) ==
    required_entities[intent]

\* missing_types = set(required_entities[intent]) - found_types
MissingTypes(intent, entities_result) ==
    required_entities[intent]
        \ {entities_result[i].type : i \in 1..Len(entities_result)}

\* {e['type'] for e in entities_result} raises KeyError for an entity without 'type'
FoundTypesRaises(entities_result) ==
    \E i \in 1..Len(entities_result) : "type" \notin DOMAIN entities_result[i]

\* ValidateResults that treats a low intent confidence as a failure
ValidateResultsGated(intent_result, entities_result, threshold) ==
    LET intent_confidence == Get(intent_result, "confidence", 0)
        avg == AvgEntityConfidence(entities_result)
        intent == Get(intent_result, "intent", "unknown")
        in_table == intent \in DOMAIN required_entities
    IN  IF intent_confidence < threshold
        THEN Exc("ValueError", "Result validation failed: low confidence")
        ELSE IF in_table /\ FoundTypesRaises(entities_result)
        THEN Exc("ValueError", "Result validation failed: 'type'")
        ELSE Ret([intent |-> [name |-> intent, confidence |-> intent_confidence],
                  entities |-> entities_result,
                  overall_confidence |-> OverallConfidence(intent_confidence, avg),
                  validation_details |->
                      [intent_valid |-> TRUE,
                       entities_valid |-> avg.num >= threshold * avg.den,
                       missing_entities |->
                           IF in_table THEN MissingTypes(intent, entities_result)
                           ELSE {}]])

\* ValidateResults whose except clause raises RuntimeError
ValidateResultsAsProcessingFailure(intent_result, entities_result, threshold) ==
    LET intent_confidence == Get(intent_result, "confidence", 0)
        avg == AvgEntityConfidence(entities_result)
        intent == Get(intent_result, "intent", "unknown")
        in_table == intent \in DOMAIN required_entities
    IN  IF in_table /\ FoundTypesRaises(entities_result)
        THEN Exc("RuntimeError", "Result validation failed: 'type'")
        ELSE Ret([intent |-> [name |-> intent, confidence |-> intent_confidence],
                  entities |-> entities_result,
                  overall_confidence |-> OverallConfidence(intent_confidence, avg),
                  validation_details |->
                      [intent_valid |-> intent_confidence >= threshold,
                       entities_valid |-> avg.num >= threshold * avg.den,
                       missing_entities |->
                           IF in_table THEN MissingTypes(intent, entities_result)
                           ELSE {}]])

\* _validate_results(intent_result, entities_result): the validated result, or
\* the ValueError the except clause raises
ValidateResults(intent_result, entities_result, threshold) ==
    LET intent_confidence == Get(intent_result, "confidence", 0)
        avg == AvgEntityConfidence(entities_result)
        intent == Get(intent_result, "intent", "unknown")
        in_table == intent \in DOMAIN required_entities
    IN  IF in_table /\ FoundTypesRaises(entities_result)
        THEN Exc("ValueError", "Result validation failed: 'type'")
        ELSE Ret([intent |-> [name |-> intent, confidence |-> intent_confidence],
                  entities |-> entities_result,
                  overall_confidence |-> OverallConfidence(intent_confidence, avg),
                  validation_details |->
                      [intent_valid |-> intent_confidence >= threshold,
                       entities_valid |-> avg.num >= threshold * avg.den,
                       missing_entities |->
                           IF in_table THEN MissingTypes(intent, entities_result)
                           ELSE {}]])

\* ----------------------------------------------------------------------
\* State
\* ----------------------------------------------------------------------

VARIABLES
    text,         \* text[r]: the argument of process_text invocation r
    pc,           \* pc[r]: position of invocation r
    intent_task,  \* intent_task[r]: the classify_intent call of invocation r
    entity_task,  \* entity_task[r]: the extract_entities call of invocation r
    outcome,      \* outcome[r]: what invocation r returned or raised
    calls,        \* calls[r]: collaborator calls made on behalf of invocation r
    semaphore,    \* self._semaphore: its _value and its _waiters
    metrics,      \* self._performance_metrics
    batch,        \* the process_batch call: argument, position, outcome
    vin,          \* arguments of a direct _validate_results call
    vout,         \* what that call returned or raised
    endpoint,     \* main.py: the request a transport endpoint served
    classifier,   \* the IntentClassifier: its cache, its clock, its calls
    first,        \* first[r]: which inference call of r completed first
    extractor,    \* the EntityExtractor: MODEL_CACHE, its metrics, its calls
    workers,      \* worker threads inside classify_intent and the caches
    service       \* the calls made on the orchestrator and on the package

vars == <<text, pc, intent_task, entity_task, outcome, calls, semaphore,
          metrics, batch, vin, vout, endpoint, classifier, first,
          extractor, workers, service>>

\* the process_text invocations of this run
Req == DOMAIN pc

\* a call that has not completed
Pending == [pending |-> TRUE]

\* arguments the model passes to process_text
Texts == {NoneText, Str(0), Str(DEFAULT_MAX_SEQUENCE_LENGTH),
          Str(DEFAULT_MAX_SEQUENCE_LENGTH + 1), ListText(1)}

\* a text that passes the input validation
ValidText == Str(DEFAULT_MAX_SEQUENCE_LENGTH)

\* what self._preprocessor.transform(text) does for a validated text: it
\* returns an encoding, or tokenize_text raises after its retries
TransformOutcomes ==
    {Ret("encoding"), Exc("RuntimeError", "Tokenization failed after max retries")}

\* what classify_intent can hand back to the orchestrator
IntentOutcomes ==
    {Ret([intent |-> "create_agent", confidence |-> 97, status |-> "success"]),
     Ret([intent |-> "unknown", confidence |-> 50, status |-> "low_confidence"]),
     Exc("RuntimeError", "Intent classification failed")}

\* what extract_entities can hand back to the orchestrator; the second is a
\* list holding an entity without a 'type' key
EntityOutcomes ==
    {Ret(<<[type |-> "AGENT_NAME", confidence |-> 97, position |-> 0]>>),
     Ret(<<[confidence |-> 50, position |-> 0]>>),
     Exc("RuntimeError", "Entity extraction failed")}

\* arguments the model passes to process_batch
ListOf(items) == [type |-> "list", items |-> items]
NoneBatch == [type |-> "NoneType", items |-> << >>]

SeqsUpTo(S, n) == UNION {[1..k -> S] : k \in 0..n}

BatchInputs ==
    {ListOf(items) : items \in SeqsUpTo(Texts, MaxReq)}
        \cup {ListOf([i \in 1..(DEFAULT_BATCH_SIZE + 1) |-> ValidText]), NoneBatch}

\* UpdateMetrics that counts a failure without recording its error
UpdateMetricsKeepsLastError(m, success, error) ==
    [total_requests |-> m.total_requests + 1,
     successful_requests |-> m.successful_requests + (IF success THEN 1 ELSE 0),
     failed_requests |-> m.failed_requests + (IF success THEN 0 ELSE 1),
     last_error |-> m.last_error]

\* UpdateMetrics that clears last_error when a request succeeds
UpdateMetricsClearingLastError(m, success, error) ==
    [total_requests |-> m.total_requests + 1,
     successful_requests |-> m.successful_requests + (IF success THEN 1 ELSE 0),
     failed_requests |-> m.failed_requests + (IF success THEN 0 ELSE 1),
     last_error |-> IF success THEN None ELSE error]

\* UpdateMetrics that counts the successes since the last failure
UpdateMetricsRestarting(m, success, error) ==
    [total_requests |-> m.total_requests + 1,
     successful_requests |-> IF success THEN m.successful_requests + 1 ELSE 0,
     failed_requests |-> m.failed_requests + (IF success THEN 0 ELSE 1),
     last_error |-> IF success THEN m.last_error ELSE error]

\* ----------------------------------------------------------------------
\* LanguageProcessor._update_metrics
\* ----------------------------------------------------------------------

UpdateMetrics(m, success, error) ==
    [total_requests |-> m.total_requests + 1,
     successful_requests |-> m.successful_requests + (IF success THEN 1 ELSE 0),
     failed_requests |-> m.failed_requests + (IF success THEN 0 ELSE 1),
     last_error |-> IF success THEN m.last_error ELSE error]

\* ----------------------------------------------------------------------
\* asyncio.Semaphore, as `async with self._semaphore` uses it (Python 3.11,
\* the version setup.py names): acquire() takes a slot without suspending
\* when the semaphore is not locked and queues a future otherwise;
\* release() hands the slot to the first waiter whose future is not done.
\* Invocations are never cancelled in this model.
\* ----------------------------------------------------------------------

\* Locked that lets one invocation too many in
LockedOffByOne(s) == s.value < 0 \/ s.waiters # << >>

\* Semaphore.locked()
Locked(s) == s.value = 0 \/ s.waiters # << >>

\* the first waiter whose future is not done, or 0
NextWaiter(s, p) ==
    LET live == {i \in 1..Len(s.waiters) : p[s.waiters[i]] = "waiting"}
    IN  IF live = {} THEN 0
        ELSE s.waiters[CHOOSE i \in live : \A j \in live : i <= j]

\* Release that frees the slot without waking a waiter
ReleaseWakesNobody(s, p) ==
    [sem |-> [s EXCEPT !.value = s.value + 1], woken |-> 0]

\* Semaphore.release(): _value += 1, then _wake_up_next() hands the slot to
\* the first live waiter
Release(s, p) ==
    LET w == NextWaiter(s, p)
    IN  IF w = 0
        THEN [sem |-> [s EXCEPT !.value = s.value + 1], woken |-> 0]
        ELSE [sem |-> s, woken |-> w]

\* ----------------------------------------------------------------------
\* LanguageProcessor.process_text
\* ----------------------------------------------------------------------

\* a task that was never created
Idle == [idle |-> TRUE]

\* the call has completed (returned or raised)
IsDone(t) == "raised" \in DOMAIN t

\* lines 86-93: the log line evaluates len(text), then the two checks
ValidateInput(t) ==
    IF ~HasLen(t)
    THEN Exc("TypeError", "object of type 'NoneType' has no len()")
    ELSE IF ~Truthy(t) \/ ~IsStr(t)
    THEN Exc("ValueError", "Invalid input text")
    ELSE IF t.len > DEFAULT_MAX_SEQUENCE_LENGTH
    THEN Exc("ValueError", "Input text exceeds maximum length")
    ELSE Ret(t)

\* FirstException that looks at the entities first
FirstExceptionEntitiesFirst(intent_result, entities_result) ==
    IF entities_result.raised THEN entities_result
    ELSE IF intent_result.raised THEN intent_result
    ELSE Ret("none")

\* lines 113-116: the first exception among [intent_result, entities_result]
FirstException(intent_result, entities_result) ==
    IF intent_result.raised THEN intent_result
    ELSE IF entities_result.raised THEN entities_result
    ELSE Ret("none")

\* lines 126-131: the enriched output
EnrichedResult(v) ==
    [status |-> "success",
     intent |-> v.intent,
     entities |-> v.entities,
     overall_confidence |-> v.overall_confidence,
     validation_details |-> v.validation_details]

\* ProcessOutcome that treats a failed extraction as an empty entity list
ProcessOutcomePartial(intent_result, entities_result) ==
    IF intent_result.raised THEN intent_result
    ELSE LET v == ValidateResults(intent_result.value,
                                  IF entities_result.raised THEN << >>
                                  ELSE entities_result.value,
                                  DEFAULT_CONFIDENCE_THRESHOLD)
         IN  IF v.raised THEN v ELSE Ret(EnrichedResult(v.value))

\* lines 113-134: what process_text returns or raises once gather has
\* delivered the two results
ProcessOutcome(intent_result, entities_result) ==
    LET e == FirstException(intent_result, entities_result)
    IN  IF e.raised THEN e
        ELSE LET v == ValidateResults(intent_result.value, entities_result.value,
                                      DEFAULT_CONFIDENCE_THRESHOLD)
             IN  IF v.raised THEN v ELSE Ret(EnrichedResult(v.value))

\* len(texts) is within the limit: the batch creates one task per item
Admissible(arg) ==
    /\ arg.type = "list"
    /\ arg.items # << >>
    /\ Len(arg.items) <= DEFAULT_BATCH_SIZE

\* invocations 1..NumItems are the items of the batch, the others are
\* single calls
NumItems(arg) == IF Admissible(arg) THEN Len(arg.items) ELSE 0
IsItem(r) == r <= NumItems(batch.arg)

\* Finished that has counted a success by the time the failure is recorded
FinishedCountsBoth(r, out, p) ==
    /\ pc' = [p EXCEPT ![r] = IF out.raised THEN "failed" ELSE "done"]
    /\ outcome' = [outcome EXCEPT ![r] = out]
    /\ metrics' = IF out.raised
                  THEN UpdateMetrics(UpdateMetrics(metrics, TRUE, None),
                                     FALSE, out.msg)
                  ELSE UpdateMetrics(metrics, TRUE, None)

\* Finished that leaves the metrics alone when the invocation raises
FinishedCountsSuccessOnly(r, out, p) ==
    /\ pc' = [p EXCEPT ![r] = IF out.raised THEN "failed" ELSE "done"]
    /\ outcome' = [outcome EXCEPT ![r] = out]
    /\ metrics' = IF out.raised THEN metrics
                  ELSE UpdateMetrics(metrics, TRUE, None)

\* the end of an invocation: _update_metrics on either path, then return or
\* raise
Finished(r, out, p) ==
    /\ pc' = [p EXCEPT ![r] = IF out.raised THEN "failed" ELSE "done"]
    /\ outcome' = [outcome EXCEPT ![r] = out]
    /\ metrics' = UpdateMetrics(metrics, ~out.raised,
                                IF out.raised THEN out.msg ELSE None)

\* lines 100-111: both tasks are created and gather is awaited
Dispatched(r, p, c) ==
    /\ pc' = [p EXCEPT ![r] = "dispatched"]
    /\ intent_task' = [intent_task EXCEPT ![r] = Pending]
    /\ entity_task' = [entity_task EXCEPT ![r] = Pending]
    /\ calls' = [c EXCEPT ![r].classify_intent = @ + 1,
                          ![r].extract_entities = @ + 1]

\* The invocation runs from its entry to its first suspension: validation,
\* preprocessing, then the semaphore, which it takes if it is not locked and
\* queues for otherwise.
Start(r) ==
    /\ pc[r] = "created"
    /\ LET v == ValidateInput(text[r])
           c == [calls EXCEPT ![r].transform = @ + 1]
       IN  IF v.raised
           THEN /\ Finished(r, v, pc)
                /\ UNCHANGED <<intent_task, entity_task, calls, semaphore>>
           ELSE \E t \in TransformOutcomes :
                  IF t.raised
                  THEN /\ Finished(r, t, pc)
                       /\ calls' = c
                       /\ UNCHANGED <<intent_task, entity_task, semaphore>>
                  ELSE IF ~Locked(semaphore)
                  THEN /\ semaphore' = [semaphore EXCEPT !.value = @ - 1]
                       /\ Dispatched(r, pc, c)
                       /\ UNCHANGED <<outcome, metrics>>
                  ELSE /\ semaphore' = [semaphore EXCEPT !.waiters = Append(@, r)]
                       /\ pc' = [pc EXCEPT ![r] = "waiting"]
                       /\ calls' = c
                       /\ UNCHANGED <<intent_task, entity_task, outcome, metrics>>
    /\ UNCHANGED <<text, batch, vin, vout>>
    /\ UNCHANGED <<endpoint, classifier, first>>
    /\ UNCHANGED <<extractor, workers, service>>

\* A waiter that release() woke resumes inside acquire(): it leaves the
\* queue, passes a spare slot on if there is one, and enters the section.
Acquired(r) ==
    /\ pc[r] = "woken"
    /\ LET left == [semaphore EXCEPT
                       !.waiters = SelectSeq(@, LAMBDA w : w # r)]
           w == IF left.value > 0 THEN NextWaiter(left, pc) ELSE 0
       IN  /\ semaphore' = IF w = 0 THEN left
                           ELSE [left EXCEPT !.value = @ - 1]
           /\ Dispatched(r, IF w = 0 THEN pc ELSE [pc EXCEPT ![w] = "woken"],
                         calls)
    /\ UNCHANGED <<text, outcome, metrics, batch, vin, vout>>
    /\ UNCHANGED <<endpoint, classifier, first>>
    /\ UNCHANGED <<extractor, workers, service>>

\* the worker thread running classify_intent(text) returns or raises
IntentDone(r) ==
    /\ pc[r] = "dispatched"
    /\ intent_task[r] = Pending
    /\ \E o \in IntentOutcomes : intent_task' = [intent_task EXCEPT ![r] = o]
    /\ UNCHANGED <<text, pc, entity_task, outcome, calls, semaphore, metrics,
                   batch, vin, vout>>
    /\ first' = IF first[r] = "none"
                THEN [first EXCEPT ![r] = "intent"] ELSE first
    /\ UNCHANGED <<endpoint, classifier>>
    /\ UNCHANGED <<extractor, workers, service>>

\* the worker thread running extract_entities(text) returns or raises
EntityDone(r) ==
    /\ pc[r] = "dispatched"
    /\ entity_task[r] = Pending
    /\ \E o \in EntityOutcomes : entity_task' = [entity_task EXCEPT ![r] = o]
    /\ UNCHANGED <<text, pc, intent_task, outcome, calls, semaphore, metrics,
                   batch, vin, vout>>
    /\ first' = IF first[r] = "none"
                THEN [first EXCEPT ![r] = "entity"] ELSE first
    /\ UNCHANGED <<endpoint, classifier>>
    /\ UNCHANGED <<extractor, workers, service>>

\* Resume that dispatches the two calls once more after a first failure
ResumeRetrying(r) ==
    /\ pc[r] = "dispatched"
    /\ IsDone(intent_task[r])
    /\ IsDone(entity_task[r])
    /\ IF /\ FirstException(intent_task[r], entity_task[r]).raised
          /\ calls[r].classify_intent = 1
       THEN /\ Dispatched(r, pc, calls)
            /\ UNCHANGED <<semaphore, outcome, metrics>>
       ELSE LET rel == Release(semaphore, pc)
            IN  /\ semaphore' = rel.sem
                /\ Finished(r, ProcessOutcome(intent_task[r], entity_task[r]),
                            IF rel.woken = 0 THEN pc
                            ELSE [pc EXCEPT ![rel.woken] = "woken"])
                /\ UNCHANGED <<intent_task, entity_task, calls>>
    /\ UNCHANGED <<text, batch, vin, vout>>
    /\ UNCHANGED <<endpoint, classifier, first>>
    /\ UNCHANGED <<extractor, workers, service>>

\* Resume that raises the exception of the call that completed first
ResumeFirstCompleted(r) ==
    /\ pc[r] = "dispatched"
    /\ IsDone(intent_task[r])
    /\ IsDone(entity_task[r])
    /\ LET rel == Release(semaphore, pc)
           out == IF first[r] = "entity" /\ entity_task[r].raised
                  THEN entity_task[r]
                  ELSE ProcessOutcome(intent_task[r], entity_task[r])
       IN  /\ semaphore' = rel.sem
           /\ Finished(r, out,
                       IF rel.woken = 0 THEN pc
                       ELSE [pc EXCEPT ![rel.woken] = "woken"])
    /\ UNCHANGED <<text, intent_task, entity_task, calls, batch, vin, vout>>
    /\ UNCHANGED <<endpoint, classifier, first>>
    /\ UNCHANGED <<extractor, workers, service>>

\* Resume that keeps the slot when an inference call raised
ResumeLeakingOnFailure(r) ==
    /\ pc[r] = "dispatched"
    /\ IsDone(intent_task[r])
    /\ IsDone(entity_task[r])
    /\ LET rel == IF intent_task[r].raised \/ entity_task[r].raised
                  THEN [sem |-> semaphore, woken |-> 0]
                  ELSE Release(semaphore, pc)
       IN  /\ semaphore' = rel.sem
           /\ Finished(r, ProcessOutcome(intent_task[r], entity_task[r]),
                       IF rel.woken = 0 THEN pc
                       ELSE [pc EXCEPT ![rel.woken] = "woken"])
    /\ UNCHANGED <<text, intent_task, entity_task, calls, batch, vin, vout>>
    /\ UNCHANGED <<endpoint, classifier, first>>
    /\ UNCHANGED <<extractor, workers, service>>

\* gather has both results: the invocation resumes, leaves the `async with`
\* block (releasing its slot on either path), merges, updates the metrics
\* and returns or raises
Resume(r) ==
    /\ pc[r] = "dispatched"
    /\ IsDone(intent_task[r])
    /\ IsDone(entity_task[r])
    /\ LET rel == Release(semaphore, pc)
       IN  /\ semaphore' = rel.sem
           /\ Finished(r, ProcessOutcome(intent_task[r], entity_task[r]),
                       IF rel.woken = 0 THEN pc
                       ELSE [pc EXCEPT ![rel.woken] = "woken"])
    /\ UNCHANGED <<text, intent_task, entity_task, calls, batch, vin, vout>>
    /\ UNCHANGED <<endpoint, classifier, first>>
    /\ UNCHANGED <<extractor, workers, service>>

\* ----------------------------------------------------------------------
\* LanguageProcessor.process_batch
\* ----------------------------------------------------------------------

\* lines 159-163: the log line evaluates len(texts), then the size check
ValidateBatch(arg) ==
    IF arg.type = "NoneType"
    THEN Exc("TypeError", "object of type 'NoneType' has no len()")
    ELSE IF arg.items = << >> \/ Len(arg.items) > DEFAULT_BATCH_SIZE
    THEN Exc("ValueError", "Invalid batch size. Limit: 32")
    ELSE Ret(arg)

\* lines 198-200: every exception leaves process_batch as a RuntimeError
BatchError(e) ==
    Exc("RuntimeError", "Batch processing failed: " \o e.msg)

\* Gather that collects the results first and the exceptions after them
GatherErrorsLast(n, outcomes) ==
    LET ok == {i \in 1..n : ~outcomes[i].raised}
        Rank(i) == IF i \in ok
                   THEN Cardinality({j \in ok : j < i}) + 1
                   ELSE Cardinality(ok) + Cardinality({j \in (1..n) \ ok : j < i}) + 1
    IN  [k \in 1..n |-> outcomes[CHOOSE i \in 1..n : Rank(i) = k]]

\* asyncio.gather(*tasks, return_exceptions=True): what each task returned
\* or raised, in the order of the tasks
Gather(n, outcomes) == [i \in 1..n |-> outcomes[i]]

\* ProcessedResults whose error records name the text the loop of lines
\* 167-169 left bound, the last one
ProcessedResultsLastText(results, texts) ==
    [idx \in 1..Len(results) |->
        IF results[idx].raised
        THEN [status |-> "error",
              error |-> results[idx].msg,
              original_text |-> texts[Len(texts)]]
        ELSE results[idx].value]

\* ProcessedResults in which every result carries the validation details
\* of the first result of the batch
ProcessedResultsFirstDetails(results, texts) ==
    LET done == {i \in 1..Len(results) : ~results[i].raised}
        lead == CHOOSE i \in done : \A j \in done : i <= j
    IN  [idx \in 1..Len(results) |->
            IF results[idx].raised
            THEN [status |-> "error",
                  error |-> results[idx].msg,
                  original_text |-> texts[idx]]
            ELSE [results[idx].value EXCEPT
                     !.validation_details =
                         results[lead].value.validation_details]]

\* lines 175-185: an error record for an exception, the result otherwise
ProcessedResults(results, texts) ==
    [idx \in 1..Len(results) |->
        IF results[idx].raised
        THEN [status |-> "error",
              error |-> results[idx].msg,
              original_text |-> texts[idx]]
        ELSE results[idx].value]

\* process_batch runs to its gather: it rejects the batch, or creates one
\* process_text task per item
BatchStart ==
    /\ batch.pc = "created"
    /\ LET v == ValidateBatch(batch.arg)
       IN  IF v.raised
           THEN /\ batch' = [batch EXCEPT !.pc = "failed",
                                          !.outcome = BatchError(v)]
                /\ pc' = pc
           ELSE /\ batch' = [batch EXCEPT !.pc = "gathering"]
                /\ pc' = [r \in Req |->
                            IF r <= Len(batch.arg.items) THEN "created" ELSE pc[r]]
    /\ UNCHANGED <<text, intent_task, entity_task, outcome, calls, semaphore,
                   metrics, vin, vout>>
    /\ UNCHANGED <<endpoint, classifier, first>>
    /\ UNCHANGED <<extractor, workers, service>>

\* every item task has finished: gather returns and the results are
\* post-processed
BatchFinish ==
    /\ batch.pc = "gathering"
    /\ \A r \in Req : IsItem(r) => pc[r] \in {"done", "failed"}
    /\ LET results == Gather(NumItems(batch.arg), outcome)
       IN  batch' = [batch EXCEPT
                        !.pc = "done",
                        !.outcome = Ret(ProcessedResults(results, batch.arg.items))]
    /\ UNCHANGED <<text, pc, intent_task, entity_task, outcome, calls,
                   semaphore, metrics, vin, vout>>
    /\ UNCHANGED <<endpoint, classifier, first>>
    /\ UNCHANGED <<extractor, workers, service>>

\* ----------------------------------------------------------------------
\* IntentClassifier
\* ----------------------------------------------------------------------

\* TTLCache(maxsize=1000, ttl=self._config.get('cache_ttl', 3600)):
\* get_model_config has no 'cache_ttl' key, so the default applies.  The
\* model never holds 1000 entries, so nothing is evicted for size.
CacheTTL == 3600

\* the clock of the cache advances by half a time-to-live at a time, until
\* an entry stored at the start has expired
TickStep == CacheTTL \div 2
MaxClock == CacheTTL

\* the number of calls on one classifier in a run
MaxCalls == 3

\* hash(text): both caches are keyed by the hash of the text, an integer
\* of fixed width, so distinct texts can share a key.  The model keeps
\* HashModulus keys; a text is identified by its length.
HashModulus == 2
HashKeys == 0..(HashModulus - 1)
Hash(t) == t.len % HashModulus

\* the texts given to the classifier: the empty string and three texts,
\* the first and the third with the same hash
ClassifierTexts == {Str(0), Str(1), Str(2), Str(3)}

\* the texts of the batches: the empty string, the text at the threshold
\* and the text below it, which shares its hash with a text that is
\* classified alone
BatchTexts == {Str(0), Str(2), Str(3)}

\* the batches given to the classifier: None and the lists of at most two
\* texts
ClassifierBatches ==
    {NoneBatch} \cup {ListOf(ts) : ts \in SeqsUpTo(BatchTexts, 2)}

\* INTENT_LABELS, as the list it is
IntentLabelList ==
    <<"create_agent", "modify_agent", "delete_agent",
      "query_status", "configure_integration", "help">>

\* The loaded model in evaluation mode, a function of the encoding: the
\* softmax of its logits for the encoding of text t, one probability in
\* percent for each of the len(INTENT_LABELS) classes it was loaded with.
\* One text is above the threshold, one at it and one below.
Probs(t) ==
    CASE t.len = 1 -> <<97, 1, 1, 1, 0, 0>>
      [] t.len = 2 -> <<2, DEFAULT_CONFIDENCE_THRESHOLD, 1, 1, 1, 0>>
      [] OTHER -> <<3, 1, 94, 1, 1, 0>>

\* torch.max and max(): the first index that holds the greatest value
ArgMax(p) ==
    CHOOSE i \in 1..Len(p) :
        /\ \A j \in 1..Len(p) : p[j] <= p[i]
        /\ \A j \in 1..(i - 1) : p[j] < p[i]

\* lines 122-127: the top probability and the label at its index
ModelOutput(t) ==
    [confidence |-> Probs(t)[ArgMax(Probs(t))],
     intent |-> IntentLabelList[ArgMax(Probs(t))]]

\* what can go wrong in a call that reaches the tokenizer and the model
Failures == {"none", "tokenizer", "model"}

\* a key that holds nothing
Absent == [present |-> FALSE]

\* TTLCache.__contains__: the key is there and its entry has not expired
Cached(cache, key, now) == cache[key].present /\ now < cache[key].expires

\* TTLCache.__setitem__
Store(cache, key, result, now) ==
    [cache EXCEPT ![key] = [present |-> TRUE, result |-> result,
                            expires |-> now + CacheTTL]]

\* Remember that replaces the encoding cached under the hash
RememberLatest(tokens, t) ==
    [tokens EXCEPT ![Hash(t)] = [present |-> TRUE, text |-> t]]

\* TextPreprocessor.tokenize_text: the encoding cached under hash(text) is
\* returned if there is one, and the encoding of text is cached otherwise;
\* an encoding is named by the text it was made from
Remember(tokens, t) ==
    IF tokens[Hash(t)].present THEN tokens
    ELSE [tokens EXCEPT ![Hash(t)] = [present |-> TRUE, text |-> t]]

Tokenized(tokens, t) == Remember(tokens, t)[Hash(t)].text

\* TextPreprocessor.transform rejects the text
TransformRejects(t) == ~Truthy(t) \/ ~IsStr(t)

\* Classified that takes a probability equal to the threshold for too low
ClassifiedAboveOnly(t, threshold) ==
    LET m == ModelOutput(t)
    IN  IF m.confidence <= threshold
        THEN [intent |-> "unknown", confidence |-> m.confidence,
              status |-> "low_confidence"]
        ELSE [intent |-> m.intent, confidence |-> m.confidence,
              status |-> "success"]

\* Classified that keeps the predicted label of a low-confidence result
ClassifiedKeepingLabel(t, threshold) ==
    LET m == ModelOutput(t)
    IN  IF m.confidence < threshold
        THEN [intent |-> m.intent, confidence |-> m.confidence,
              status |-> "low_confidence"]
        ELSE [intent |-> m.intent, confidence |-> m.confidence,
              status |-> "success"]

\* classify_intent, lines 121-141: the result of the inference on the
\* encoding of text t
Classified(t, threshold) ==
    LET m == ModelOutput(t)
    IN  IF m.confidence < threshold
        THEN [intent |-> "unknown", confidence |-> m.confidence,
              status |-> "low_confidence"]
        ELSE [intent |-> m.intent, confidence |-> m.confidence,
              status |-> "success"]

\* classify_batch, lines 188-200: the result of one item of the batch
BatchClassified(t, threshold) ==
    LET m == ModelOutput(t)
    IN  [intent |-> IF m.confidence >= threshold THEN m.intent ELSE "unknown",
         confidence |-> m.confidence,
         status |-> IF m.confidence >= threshold THEN "success"
                    ELSE "low_confidence"]

\* classify_intent(t) on classifier c: what it returns or raises, the two
\* caches after it and the number of inferences it ran
ClassifyIntentCall(c, t, failure) ==
    LET key == Hash(t)
        raised == [out |-> Exc("RuntimeError", "Intent classification failed"),
                   cache |-> c.cache, tokens |-> c.tokens, ran |-> 0]
    IN  IF Cached(c.cache, key, c.now)
        THEN [out |-> Ret(c.cache[key].result), cache |-> c.cache,
              tokens |-> c.tokens, ran |-> 0]
        ELSE IF TransformRejects(t) \/ failure = "tokenizer" THEN raised
        ELSE IF failure = "model"
        THEN [raised EXCEPT !.tokens = Remember(c.tokens, t)]
        ELSE LET result == Classified(Tokenized(c.tokens, t), c.threshold)
             IN  [out |-> Ret(result),
                  cache |-> Store(c.cache, key, result, c.now),
                  tokens |-> Remember(c.tokens, t), ran |-> 1]

\* Probabilities that pairs the probabilities with the labels in reverse
ProbabilitiesReversed(t) ==
    [l \in INTENT_LABELS |->
        LET i == CHOOSE k \in 1..Len(IntentLabelList) : IntentLabelList[k] = l
        IN  Probs(t)[Len(IntentLabelList) + 1 - i]]

\* predict_proba, lines 244-247: zip(INTENT_LABELS, probs[0]) as a dict
Probabilities(t) ==
    [l \in INTENT_LABELS |->
        LET i == CHOOSE k \in 1..Len(IntentLabelList) : IntentLabelList[k] = l
        IN  Probs(t)[i]]

\* predict_proba(t) on classifier c: the result cache is neither read nor
\* written
PredictProbaCall(c, t, failure) ==
    LET raised == [out |-> Exc("RuntimeError", "Probability prediction failed"),
                   cache |-> c.cache, tokens |-> c.tokens, ran |-> 0]
    IN  IF TransformRejects(t) \/ failure = "tokenizer" THEN raised
        ELSE IF failure = "model"
        THEN [raised EXCEPT !.tokens = Remember(c.tokens, t)]
        ELSE [out |-> Ret(Probabilities(Tokenized(c.tokens, t))),
              cache |-> c.cache,
              tokens |-> Remember(c.tokens, t), ran |-> 1]

\* batch_transform: the token cache after the first n texts of ts
RECURSIVE RememberAll(_, _, _)
RememberAll(tokens, ts, n) ==
    IF n = 0 THEN tokens ELSE Remember(RememberAll(tokens, ts, n - 1), ts[n])

\* the results of the first n items of the batch
BatchResults(c, ts, n) ==
    [i \in 1..n |->
        BatchClassified(Tokenized(RememberAll(c.tokens, ts, i - 1), ts[i]),
                        c.threshold)]

\* the result cache after the results of the first n items were stored
RECURSIVE StoreAllAt(_, _, _, _, _)
StoreAllAt(cache, ts, results, n, now) ==
    IF n = 0 THEN cache
    ELSE Store(StoreAllAt(cache, ts, results, n - 1, now), Hash(ts[n]),
               results[n], now)

\* classify_batch(arg) on classifier c; the batches of the model fit in one
\* sub-batch of BATCH_SIZE texts
ClassifyBatchCall(c, arg, failure) ==
    LET ts == arg.items
        n == Len(ts)
        bad == {i \in 1..n : TransformRejects(ts[i])}
        upto == IF bad = {} THEN n
                ELSE (CHOOSE i \in bad : \A j \in bad : i <= j) - 1
        raised == [out |-> Exc("RuntimeError", "Batch classification failed"),
                   cache |-> c.cache, tokens |-> c.tokens, ran |-> 0]
    IN  IF n = 0
        THEN [out |-> Ret(<< >>), cache |-> c.cache, tokens |-> c.tokens,
              ran |-> 0]
        ELSE IF failure = "tokenizer" THEN raised
        ELSE IF bad # {} \/ failure = "model"
        THEN [raised EXCEPT !.tokens = RememberAll(c.tokens, ts, upto)]
        ELSE LET results == BatchResults(c, ts, n)
             IN  [out |-> Ret(results),
                  cache |-> StoreAllAt(c.cache, ts, results, n, c.now),
                  tokens |-> RememberAll(c.tokens, ts, n), ran |-> n]

\* IntentClassifier.__init__: an empty TTLCache and a preprocessor with an
\* empty token cache; the clock of the cache is at 0, the model has not
\* run, and no call has been made
FreshClassifier ==
    [cache |-> [k \in HashKeys |-> Absent],
     tokens |-> [k \in HashKeys |-> Absent],
     threshold |-> DEFAULT_CONFIDENCE_THRESHOLD,
     now |-> 0, inferences |-> 0, calls |-> 0,
     last |-> [op |-> "none"],
     seen |-> [t \in ClassifierTexts |-> Absent]]

\* ----------------------------------------------------------------------
\* EntityExtractor
\* ----------------------------------------------------------------------

\* list(ENTITY_TYPES.keys()): the keys in the order of the dict
EntityTypeKeys ==
    <<"AGENT_NAME", "INTEGRATION_TYPE", "PARAMETER", "SCHEDULE", "ACTION",
      "CONDITION">>

\* the texts given to the extractor: None, the empty string, a list where
\* a string is expected, and four strings
ExtractorTexts ==
    {NoneText, Str(0), ListText(1), Str(1), Str(2), Str(3), Str(4)}

\* a string passed where the list of texts is expected
TextAsBatch == [type |-> "str", items |-> <<Str(1)>>]

\* the batches given to the extractor: None, a string, and the lists of
\* at most two texts, the texts being the empty string and three texts of
\* which the first and the third have the same hash
ExtractorBatches ==
    {NoneBatch, TextAsBatch}
        \cup {ListOf(ts) : ts \in SeqsUpTo({Str(0), Str(1), Str(2), Str(3)}, 2)}

\* one position of the model's output: the attention mask of the encoding,
\* the top softmax probability in percent and the index of its class
Token(mask, prob, label) == [mask |-> mask, prob |-> prob, label |-> label]

\* The loaded token classifier, a function of the encoding: its output for
\* the encoding of text t, which has one token per character and is padded
\* to three positions.  load_model does not fix the number of classes, and
\* the model of the last text has a class beyond the six of ENTITY_TYPES;
\* the text of five characters has no token that reaches the threshold.
ExtractorModel(t) ==
    CASE t.len = 1 -> <<Token(1, 97, 0), Token(0, 97, 1), Token(0, 50, 2)>>
      [] t.len = 2 -> <<Token(1, DEFAULT_CONFIDENCE_THRESHOLD, 1),
                        Token(1, 94, 0), Token(0, 99, 3)>>
      [] t.len = 3 -> <<Token(1, 94, 0), Token(1, 96, 0), Token(1, 97, 1)>>
      [] t.len = 5 -> <<Token(1, 94, 0), Token(1, 50, 1), Token(0, 99, 2)>>
      [] OTHER -> <<Token(1, 97, 6), Token(0, 50, 0), Token(0, 50, 0)>>

\* text[idx:idx + 1]: the character at idx, or the empty string
CharAt(t, idx) == IF idx < t.len THEN <<t.len, idx>> ELSE << >>

\* Reported with the extractor's threshold at one half
ReportedAboveHalf(tok, threshold) == tok.mask # 0 /\ tok.prob >= 50

\* lines 165-169: the token is no padding and its top probability reaches
\* the threshold
Reported(tok, threshold) == tok.mask # 0 /\ tok.prob >= threshold

\* line 172: the index of the class is beyond the keys, IndexError
LabelFails(toks, threshold) ==
    \E i \in 1..Len(toks) :
        Reported(toks[i], threshold) /\ toks[i].label >= Len(EntityTypeKeys)

\* Entities that skips no padding position
RECURSIVE EntitiesWithPadding(_, _, _, _)
EntitiesWithPadding(toks, t, threshold, n) ==
    IF n = 0 THEN << >>
    ELSE LET rest == EntitiesWithPadding(toks, t, threshold, n - 1)
             tok == toks[n]
         IN  IF tok.prob >= threshold
             THEN Append(rest, [type |-> EntityTypeKeys[tok.label + 1],
                                confidence |-> tok.prob,
                                position |-> n - 1,
                                text |-> CharAt(t, n - 1)])
             ELSE rest

\* lines 163-177 and 228-242: the entities of the first n positions of the
\* output toks for text t
RECURSIVE Entities(_, _, _, _)
Entities(toks, t, threshold, n) ==
    IF n = 0 THEN << >>
    ELSE LET rest == Entities(toks, t, threshold, n - 1)
             tok == toks[n]
         IN  IF Reported(tok, threshold)
             THEN Append(rest, [type |-> EntityTypeKeys[tok.label + 1],
                                confidence |-> tok.prob,
                                position |-> n - 1,
                                text |-> CharAt(t, n - 1)])
             ELSE rest

\* InvalidText that lets the empty string pass
InvalidTextNonStringOnly(t) == ~IsStr(t)

\* extract_entities and extract_batch reject the text or the batch
InvalidText(t) == ~Truthy(t) \/ ~IsStr(t)
InvalidBatch(arg) == arg.items = << >> \/ arg.type # "list"

\* the outcome of a call that changes nothing
Unchanged(e, out) ==
    [out |-> out, tokens |-> e.tokens, metrics |-> e.metrics, ran |-> 0]

\* extract_entities(t) on extractor e: what it returns or raises, the token
\* cache and the metrics after it and the number of inferences it ran
ExtractEntitiesCall(e, t, failure) ==
    LET failed == Unchanged(e, Exc("RuntimeError", "Entity extraction failed"))
        toks == ExtractorModel(Tokenized(e.tokens, t))
        entities == Entities(toks, t, e.threshold, Len(toks))
    IN  IF InvalidText(t)
        THEN Unchanged(e, Exc("ValueError", "Invalid input text"))
        ELSE IF failure = "tokenizer" THEN failed
        ELSE IF failure = "model"
        THEN [failed EXCEPT !.tokens = Remember(e.tokens, t)]
        ELSE IF LabelFails(toks, e.threshold)
        THEN [failed EXCEPT !.tokens = Remember(e.tokens, t), !.ran = 1]
        ELSE [out |-> Ret(entities),
              tokens |-> Remember(e.tokens, t),
              metrics |-> [processed_texts |-> e.metrics.processed_texts + 1,
                           successful_extractions |->
                               e.metrics.successful_extractions
                                   + Len(entities)],
              ran |-> 1]

\* BatchItemTokens that reads every sub-batch at the rows of the first
BatchItemTokensOfFirstRows(e, ts, i) ==
    LET row == ((i - 1) % e.batch_size) + 1
    IN  ExtractorModel(Tokenized(RememberAll(e.tokens, ts, row - 1), ts[row]))

\* the model's output for item i of the batch ts, tokenized after the
\* items before it
BatchItemTokens(e, ts, i) ==
    ExtractorModel(Tokenized(RememberAll(e.tokens, ts, i - 1), ts[i]))

\* the smallest element of a non-empty set of numbers
Least(S) == CHOOSE i \in S : \A j \in S : i <= j

\* the last item of the sub-batch of size bs that holds item i of n
EndOfSubBatch(i, bs, n) ==
    LET end == ((i - 1) \div bs + 1) * bs
    IN  IF end < n THEN end ELSE n

\* extract_batch(arg) on extractor e.  The sub-batches are processed one
\* after the other, each tokenized as a whole before the model runs on
\* it; the metrics are not touched.
ExtractBatchCall(e, arg, failure) ==
    LET ts == arg.items
        n == Len(ts)
        bs == e.batch_size
        failed == Unchanged(e, Exc("RuntimeError", "Batch extraction failed"))
        bad == {i \in 1..n : TransformRejects(ts[i])}
        wrong == {i \in 1..n :
                    LabelFails(BatchItemTokens(e, ts, i), e.threshold)}
        before(i) == ((i - 1) \div bs) * bs
    IN  IF InvalidBatch(arg)
        THEN Unchanged(e, Exc("ValueError", "Invalid input batch"))
        ELSE IF failure = "tokenizer" THEN failed
        ELSE IF failure = "model"
        THEN [failed EXCEPT
                 !.tokens = RememberAll(e.tokens, ts, EndOfSubBatch(1, bs, n))]
        ELSE IF bad # {}
                /\ (wrong = {} \/ Least(bad) <= EndOfSubBatch(Least(wrong), bs, n))
        THEN [failed EXCEPT
                 !.tokens = RememberAll(e.tokens, ts, Least(bad) - 1),
                 !.ran = before(Least(bad))]
        ELSE IF wrong # {}
        THEN [failed EXCEPT
                 !.tokens = RememberAll(e.tokens, ts,
                                        EndOfSubBatch(Least(wrong), bs, n)),
                 !.ran = EndOfSubBatch(Least(wrong), bs, n)]
        ELSE [out |-> Ret([i \in 1..n |->
                             LET toks == BatchItemTokens(e, ts, i)
                             IN  Entities(toks, ts[i], e.threshold, Len(toks))]),
              tokens |-> RememberAll(e.tokens, ts, n),
              metrics |-> e.metrics,
              ran |-> n]

\* EntityExtractor.__init__, lines 119-124
InitExtractorMetrics == [processed_texts |-> 0, successful_extractions |-> 0]

\* CleanupResourcesCall that leaves the metrics as they are
CleanupResourcesCallKeepingMetrics(e) ==
    [out |-> Ret(TRUE), model_cache |-> {}, metrics |-> e.metrics]

\* EntityExtractor.cleanup_resources: MODEL_CACHE is cleared and the
\* metrics are reset; the call returns True
CleanupResourcesCall(e) ==
    [out |-> Ret(TRUE), model_cache |-> {}, metrics |-> InitExtractorMetrics]

\* entity_extractor.py: MAX_BATCH_SIZE
MAX_BATCH_SIZE == 32

\* EntityExtractor.__init__ with config.BATCH_SIZE = size: load_model has
\* put the model in MODEL_CACHE, the metrics are 0, the preprocessor has
\* an empty token cache and no call has been made
NewExtractor(size) ==
    [model_cache |-> {"models/nlp"},
     metrics |-> InitExtractorMetrics,
     tokens |-> [k \in HashKeys |-> Absent],
     threshold |-> DEFAULT_CONFIDENCE_THRESHOLD,
     batch_size |-> IF size < MAX_BATCH_SIZE THEN size ELSE MAX_BATCH_SIZE,
     inferences |-> 0, calls |-> 0,
     last |-> [op |-> "none"]]

FreshExtractor == NewExtractor(DEFAULT_BATCH_SIZE)

\* no worker thread is running
NoWorkers == << >>

\* no call has been made on the orchestrator; clock is the wall clock in
\* ticks of its resolution, request_ids are the request ids generated so
\* far and invocations is the number of process_text invocations started
FreshService ==
    [calls |-> 0, cleanups |-> 0, last |-> [op |-> "none"],
     clock |-> 0, request_ids |-> {}, invocations |-> 0]

\* ----------------------------------------------------------------------
\* Specification: one process_batch call and single process_text calls.
\* A run starts from a fresh processor with a workload of at most MaxReq
\* invocations (Fresh), or from a processor whose SemaphoreSlots slots are
\* all taken (Loaded), the state in which the semaphore suspends a caller.
\* ----------------------------------------------------------------------

\* LanguageProcessor.__init__
InitMetrics ==
    [total_requests |-> 0, successful_requests |-> 0, failed_requests |-> 0,
     last_error |-> None]

InitSemaphore == [value |-> SemaphoreSlots, waiters |-> << >>]

NoCalls == [transform |-> 0, classify_intent |-> 0, extract_entities |-> 0]

\* a fresh processor, a process_batch call with argument arg and single
\* process_text calls with the arguments singles, none of which has run yet
Submitted(arg, singles) ==
    LET k == NumItems(arg)
        n == k + Len(singles)
    IN  /\ text = [r \in 1..n |-> IF r <= k THEN arg.items[r] ELSE singles[r - k]]
        /\ pc = [r \in 1..n |-> IF r <= k THEN "none" ELSE "created"]
        /\ intent_task = [r \in 1..n |-> Idle]
        /\ entity_task = [r \in 1..n |-> Idle]
        /\ outcome = [r \in 1..n |-> Pending]
        /\ calls = [r \in 1..n |-> NoCalls]
        /\ semaphore = InitSemaphore
        /\ metrics = InitMetrics
        /\ batch = [arg |-> arg, pc |-> "created", outcome |-> Pending]

\* a fresh processor with a small workload
Fresh ==
    \E arg \in BatchInputs :
    \E singles \in SeqsUpTo(Texts, IF NumItems(arg) < MaxReq THEN 1 ELSE 0) :
       Submitted(arg, singles)

\* what the inference calls of the invocations in flight of Loaded returned
LoadedIntent(r) ==
    IF r = 2 THEN Exc("RuntimeError", "Intent classification failed")
    ELSE Ret([intent |-> "create_agent", confidence |-> 97, status |-> "success"])

LoadedEntities(r) ==
    IF r = 3 THEN Exc("RuntimeError", "Entity extraction failed")
    ELSE IF r = 4 THEN Ret(<<[confidence |-> 50, position |-> 0]>>)
    ELSE Ret(<<[type |-> "AGENT_NAME", confidence |-> 97, position |-> 0]>>)

\* A processor under load: SemaphoreSlots single calls (2..SemaphoreSlots+1)
\* are inside the dispatch section, the two inference calls of each have
\* completed and none has resumed yet, when a batch of one item arrives.
\* The state is reached from a fresh processor by Start, IntentDone and
\* EntityDone of each of the single calls.
Loaded ==
    LET n == SemaphoreSlots + 1
    IN  /\ text = [r \in 1..n |-> ValidText]
        /\ pc = [r \in 1..n |-> IF r = 1 THEN "none" ELSE "dispatched"]
        /\ intent_task = [r \in 1..n |-> IF r = 1 THEN Idle ELSE LoadedIntent(r)]
        /\ entity_task = [r \in 1..n |-> IF r = 1 THEN Idle ELSE LoadedEntities(r)]
        /\ outcome = [r \in 1..n |-> Pending]
        /\ calls = [r \in 1..n |->
                      IF r = 1 THEN NoCalls
                      ELSE [transform |-> 1, classify_intent |-> 1,
                            extract_entities |-> 1]]
        /\ semaphore = [value |-> 0, waiters |-> << >>]
        /\ metrics = InitMetrics
        /\ batch = [arg |-> ListOf(<<ValidText>>), pc |-> "created",
                    outcome |-> Pending]

Init ==
    /\ Fresh \/ Loaded
    /\ vin = Pending
    /\ vout = Pending
    /\ endpoint = Pending
    /\ classifier = FreshClassifier
    /\ first = [r \in Req |-> "untracked"]
    /\ extractor = FreshExtractor
    /\ workers = NoWorkers
    /\ service = FreshService

Next ==
    \/ \E r \in Req : Start(r)
    \/ \E r \in Req : Acquired(r)
    \/ \E r \in Req : IntentDone(r)
    \/ \E r \in Req : EntityDone(r)
    \/ \E r \in Req : Resume(r)
    \/ BatchStart
    \/ BatchFinish

Spec == Init /\ [][Next]_vars

\* ----------------------------------------------------------------------
\* Specification of _validate_results as a function of its two arguments
\* ----------------------------------------------------------------------

\* confidences the enumerated arguments carry: 0, just below the threshold,
\* the threshold, 1
Confidences ==
    {0, DEFAULT_CONFIDENCE_THRESHOLD - 1, DEFAULT_CONFIDENCE_THRESHOLD, 100}

\* intent results: every label and 'unknown', and a dict without the keys
\* 'intent' and 'confidence'
IntentResults ==
    {[intent |-> l, confidence |-> c,
      status |-> IF l = "unknown" THEN "low_confidence" ELSE "success"] :
        l \in INTENT_LABELS \cup {"unknown"}, c \in Confidences}
        \cup {[status |-> "success"]}

\* entities: three of the types, an entity without 'type' and one without
\* 'confidence'
EntityValues ==
    {[type |-> t, confidence |-> c, position |-> 0] :
        t \in {"AGENT_NAME", "INTEGRATION_TYPE", "PARAMETER"},
        c \in {0, DEFAULT_CONFIDENCE_THRESHOLD, 100}}
        \cup {[confidence |-> 50, position |-> 0],
              [type |-> "AGENT_NAME", position |-> 0]}

\* an idle processor and the arguments of one _validate_results call
ValidateInit ==
    /\ Submitted(ListOf(<< >>), << >>)
    /\ \E ir \in IntentResults, es \in SeqsUpTo(EntityValues, MaxEntities) :
          vin = [intent_result |-> ir, entities_result |-> es]
    /\ vout = Pending
    /\ endpoint = Pending
    /\ classifier = FreshClassifier
    /\ first = [r \in Req |-> "untracked"]
    /\ extractor = FreshExtractor
    /\ workers = NoWorkers
    /\ service = FreshService

\* the call returns the validated result or raises
ValidateCall ==
    /\ vin # Pending
    /\ vout = Pending
    /\ vout' = ValidateResults(vin.intent_result, vin.entities_result,
                               DEFAULT_CONFIDENCE_THRESHOLD)
    /\ UNCHANGED <<text, pc, intent_task, entity_task, outcome, calls,
                   semaphore, metrics, batch, vin>>
    /\ UNCHANGED <<endpoint, classifier, first>>
    /\ UNCHANGED <<extractor, workers, service>>

SpecValidate == ValidateInit /\ [][ValidateCall]_vars

\* ----------------------------------------------------------------------
\* main.py: the transport endpoints /process and /process/batch.  A run of
\* this specification serves one request on a processor with nothing else
\* in flight, so the orchestrator call inside the handler never waits for a
\* slot and the handler is one step.
\* ----------------------------------------------------------------------

\* a text of n whitespace characters
Blank(n) == [type |-> "str", len |-> n, blank |-> TRUE]

\* len(text.strip())
Stripped(t) == IF "blank" \in DOMAIN t THEN 0 ELSE t.len

\* the texts a ProcessTextRequest carries: pydantic admits strings only
EndpointTexts ==
    {Str(0), Blank(1), ValidText, Str(DEFAULT_MAX_SEQUENCE_LENGTH + 1)}

\* the lists a ProcessBatchRequest carries
EndpointBatches ==
    {ListOf(items) : items \in SeqsUpTo(EndpointTexts, MaxReq)}
        \cup {ListOf([i \in 1..(DEFAULT_BATCH_SIZE + 1) |-> ValidText])}

\* fastapi.HTTPException(status_code, detail), a subclass of Exception
HTTPException(status_code, detail) ==
    [raised |-> TRUE, cls |-> "HTTPException", status_code |-> status_code,
     msg |-> detail]

\* the `except Exception` clause of either handler: whatever was raised in
\* the try block leaves as HTTPException(500) with the endpoint's error code
ErrorResponse(error_code) ==
    [status_code |-> 500, error_code |-> error_code]

\* ProcessResponse(result=result, confidence_score=result.get(
\* 'overall_confidence', 0.0), ...), sent with status 200
ProcessResponse(result) ==
    [status_code |-> 200,
     result |-> result,
     confidence_score |-> Get(result, "overall_confidence", [num |-> 0, den |-> 1])]

\* language_processor.process_text(t) with no other invocation in flight:
\* input validation, preprocessing (tr), the two inference calls (io, eo)
\* and the merge
ProcessTextAlone(t, tr, io, eo) ==
    LET v == ValidateInput(t)
    IN  IF v.raised THEN v
        ELSE IF tr.raised THEN tr
        ELSE ProcessOutcome(io, eo)

\* what process_text can return or raise for the text t, over everything
\* the collaborators can do
TextOutcomes(t) ==
    {ProcessTextAlone(t, tr, io, eo) :
        tr \in TransformOutcomes, io \in IntentOutcomes, eo \in EntityOutcomes}

\* the orders in which n invocations can finish
Orders(n) == {o \in [1..n -> 1..n] : \A i, j \in 1..n : o[i] = o[j] => i = j}

RECURSIVE MetricsAfter(_, _, _)
\* the metrics after the invocations with outcomes outs finished in the
\* order given
MetricsAfter(m, outs, order) ==
    IF order = << >> THEN m
    ELSE LET out == outs[Head(order)]
         IN  MetricsAfter(UpdateMetrics(m, ~out.raised,
                                        IF out.raised THEN out.msg ELSE None),
                          outs, Tail(order))

\* what the process_text tasks of a batch can return or raise
ItemOutcomes(items) ==
    {outs \in [1..Len(items) -> UNION {TextOutcomes(t) : t \in EndpointTexts}] :
        \A i \in 1..Len(items) : outs[i] \in TextOutcomes(items[i])}

\* POST /process
ProcessTextEndpoint ==
    /\ endpoint = Pending
    /\ \E t \in EndpointTexts :
          IF Stripped(t) = 0
          THEN /\ endpoint' = [path |-> "/process", request |-> t,
                               error |-> HTTPException(400, "Empty text input"),
                               response |-> ErrorResponse("PROCESSING_ERROR")]
               /\ metrics' = metrics
          ELSE \E out \in TextOutcomes(t) :
                   /\ endpoint' = [path |-> "/process", request |-> t,
                                   error |-> IF out.raised THEN out ELSE Ret("none"),
                                   response |->
                                       IF out.raised
                                       THEN ErrorResponse("PROCESSING_ERROR")
                                       ELSE ProcessResponse(out.value)]
                   /\ metrics' = MetricsAfter(metrics, <<out>>, <<1>>)
    /\ UNCHANGED <<text, pc, intent_task, entity_task, outcome, calls,
                   semaphore, batch, vin, vout, classifier, first>>
    /\ UNCHANGED <<extractor, workers, service>>

\* POST /process/batch
ProcessBatchEndpoint ==
    /\ endpoint = Pending
    /\ \E arg \in EndpointBatches :
          IF Len(arg.items) > DEFAULT_BATCH_SIZE
          THEN /\ endpoint' = [path |-> "/process/batch", request |-> arg,
                               error |-> HTTPException(400,
                                           "Batch size exceeds limit of 32"),
                               response |-> ErrorResponse("BATCH_PROCESSING_ERROR")]
               /\ metrics' = metrics
          ELSE LET v == ValidateBatch(arg)
               IN  IF v.raised
                   THEN /\ endpoint' = [path |-> "/process/batch", request |-> arg,
                                        error |-> BatchError(v),
                                        response |->
                                            ErrorResponse("BATCH_PROCESSING_ERROR")]
                        /\ metrics' = metrics
                   ELSE \E outs \in ItemOutcomes(arg.items),
                           order \in Orders(Len(arg.items)) :
                          LET results == ProcessedResults(
                                             Gather(Len(arg.items), outs), arg.items)
                          IN  /\ endpoint' =
                                    [path |-> "/process/batch", request |-> arg,
                                     error |-> Ret("none"),
                                     items |-> outs,
                                     response |->
                                        [status_code |-> 200,
                                         body |-> [i \in 1..Len(results) |->
                                                     ProcessResponse(results[i])]]]
                              /\ metrics' = MetricsAfter(metrics, outs, order)
    /\ UNCHANGED <<text, pc, intent_task, entity_task, outcome, calls,
                   semaphore, batch, vin, vout, classifier, first>>
    /\ UNCHANGED <<extractor, workers, service>>

\* an idle processor behind the transport
TransportInit ==
    /\ Submitted(ListOf(<< >>), << >>)
    /\ vin = Pending
    /\ vout = Pending
    /\ endpoint = Pending
    /\ classifier = FreshClassifier
    /\ first = [r \in Req |-> "untracked"]
    /\ extractor = FreshExtractor
    /\ workers = NoWorkers
    /\ service = FreshService

TransportNext == ProcessTextEndpoint \/ ProcessBatchEndpoint

SpecTransport == TransportInit /\ [][TransportNext]_vars

\* ----------------------------------------------------------------------
\* Specification: at most MaxCalls calls of classify_intent and
\* classify_batch on one IntentClassifier, one after the other, while the
\* clock of its cache advances.  classifier.last describes the last call
\* and classifier.seen holds, for each text, what the last
\* classify_intent call on it returned or raised and when; the last call
\* keeps in prev what seen held for its text before it.
\* ----------------------------------------------------------------------

\* the classifier after a call that went as `call` says
AfterCall(call, last, seen) ==
    [classifier EXCEPT !.cache = call.cache, !.tokens = call.tokens,
                       !.inferences = @ + call.ran, !.calls = @ + 1,
                       !.last = last, !.seen = seen]

\* classify_intent(t)
ClassifyIntent ==
    /\ classifier.calls < MaxCalls
    /\ \E t \in ClassifierTexts :
       \E failure \in IF Cached(classifier.cache, Hash(t), classifier.now)
                          \/ TransformRejects(t)
                       THEN {"none"} ELSE Failures :
          LET call == ClassifyIntentCall(classifier, t, failure)
          IN  classifier' =
                AfterCall(call,
                          [op |-> "classify_intent", text |-> t,
                           out |-> call.out, ran |-> call.ran,
                           at |-> classifier.now,
                           prev |-> classifier.seen[t]],
                          [classifier.seen EXCEPT
                              ![t] = [present |-> TRUE, out |-> call.out,
                                      at |-> classifier.now]])
    /\ UNCHANGED <<text, pc, intent_task, entity_task, outcome, calls,
                   semaphore, metrics, batch, vin, vout, endpoint, first>>
    /\ UNCHANGED <<extractor, workers, service>>

\* classify_batch(arg)
ClassifyBatch ==
    /\ classifier.calls < MaxCalls
    /\ \E arg \in ClassifierBatches :
       \E failure \in IF arg.items = << >> THEN {"none"} ELSE Failures :
          LET call == ClassifyBatchCall(classifier, arg, failure)
          IN  classifier' =
                AfterCall(call,
                          [op |-> "classify_batch", arg |-> arg,
                           out |-> call.out, ran |-> call.ran],
                          classifier.seen)
    /\ UNCHANGED <<text, pc, intent_task, entity_task, outcome, calls,
                   semaphore, metrics, batch, vin, vout, endpoint, first>>
    /\ UNCHANGED <<extractor, workers, service>>

\* time passes between two calls
Tick ==
    /\ classifier.now < MaxClock
    /\ classifier' = [classifier EXCEPT !.now = @ + TickStep]
    /\ UNCHANGED <<text, pc, intent_task, entity_task, outcome, calls,
                   semaphore, metrics, batch, vin, vout, endpoint, first>>
    /\ UNCHANGED <<extractor, workers, service>>

ClassifierInit ==
    /\ Submitted(ListOf(<< >>), << >>)
    /\ vin = Pending
    /\ vout = Pending
    /\ endpoint = Pending
    /\ classifier = FreshClassifier
    /\ first = [r \in Req |-> "untracked"]
    /\ extractor = FreshExtractor
    /\ workers = NoWorkers
    /\ service = FreshService

ClassifierNext == ClassifyIntent \/ ClassifyBatch \/ Tick

SpecClassifier == ClassifierInit /\ [][ClassifierNext]_vars

\* ----------------------------------------------------------------------
\* Specification: the retry loops.  tokenize_text tries the tokenizer up to
\* MAX_RETRIES times, and the constructor of the classifier tries the model
\* load up to MAX_RETRIES times; fails[i] says that attempt i raises.
\* ----------------------------------------------------------------------

\* text_preprocessor.py and intent_classifier.py: MAX_RETRIES
MAX_RETRIES == 3

\* TokenizeText that caches the text also when every attempt has failed
TokenizeTextCachingFailure ==
    /\ classifier.calls < MaxCalls
    /\ \E t \in {NoneText, Str(1), Str(2), Str(3)} :
       \E fails \in [1..MAX_RETRIES -> BOOLEAN] :
          LET RECURSIVE Loop(_)
              Loop(attempt) ==
                  IF ~fails[attempt + 1]
                  THEN [out |-> Ret(t), attempts |-> attempt + 1]
                  ELSE IF attempt = MAX_RETRIES - 1
                  THEN [out |-> Exc("RuntimeError",
                                    "Tokenization failed after max retries"),
                        attempts |-> attempt + 1]
                  ELSE Loop(attempt + 1)
              key == Hash(t)
              call == IF classifier.tokens[key].present
                      THEN [out |-> Ret(classifier.tokens[key].text),
                            attempts |-> 0]
                      ELSE IF ~IsStr(t)
                      THEN [out |-> Exc("ValueError", "Input must be a string"),
                            attempts |-> 0]
                      ELSE Loop(0)
          IN  classifier' =
                [classifier EXCEPT
                    !.tokens = IF call.attempts = 0 THEN @
                               ELSE [@ EXCEPT ![key] = [present |-> TRUE,
                                                        text |-> t]],
                    !.calls = @ + 1,
                    !.last = [op |-> "tokenize_text", text |-> t,
                              fails |-> fails, out |-> call.out,
                              attempts |-> call.attempts,
                              tokens |-> classifier.tokens]]
    /\ UNCHANGED <<text, pc, intent_task, entity_task, outcome, calls,
                   semaphore, metrics, batch, vin, vout, endpoint, first>>
    /\ UNCHANGED <<extractor, workers, service>>

\* tokenize_text(t) on the classifier's preprocessor: the encoding cached
\* under hash(t) is returned without an attempt; clean_text rejects what is
\* no string; otherwise the loop runs, and the first attempt that does not
\* raise has its result cached and returned, while the last attempt that
\* raises ends the call with RuntimeError
TokenizeText ==
    /\ classifier.calls < MaxCalls
    /\ \E t \in {NoneText, Str(1), Str(2), Str(3)} :
       \E fails \in [1..MAX_RETRIES -> BOOLEAN] :
          LET RECURSIVE Loop(_)
              Loop(attempt) ==
                  IF ~fails[attempt + 1]
                  THEN [out |-> Ret(t), attempts |-> attempt + 1]
                  ELSE IF attempt = MAX_RETRIES - 1
                  THEN [out |-> Exc("RuntimeError",
                                    "Tokenization failed after max retries"),
                        attempts |-> attempt + 1]
                  ELSE Loop(attempt + 1)
              key == Hash(t)
              call == IF classifier.tokens[key].present
                      THEN [out |-> Ret(classifier.tokens[key].text),
                            attempts |-> 0]
                      ELSE IF ~IsStr(t)
                      THEN [out |-> Exc("ValueError", "Input must be a string"),
                            attempts |-> 0]
                      ELSE Loop(0)
          IN  classifier' =
                [classifier EXCEPT
                    !.tokens = IF call.attempts = 0 \/ call.out.raised THEN @
                               ELSE [@ EXCEPT ![key] = [present |-> TRUE,
                                                        text |-> t]],
                    !.calls = @ + 1,
                    !.last = [op |-> "tokenize_text", text |-> t,
                              fails |-> fails, out |-> call.out,
                              attempts |-> call.attempts,
                              tokens |-> classifier.tokens]]
    /\ UNCHANGED <<text, pc, intent_task, entity_task, outcome, calls,
                   semaphore, metrics, batch, vin, vout, endpoint, first>>
    /\ UNCHANGED <<extractor, workers, service>>

\* Construct that gives up at the second failed attempt
ConstructGivingUpEarly ==
    /\ classifier.calls < MaxCalls
    /\ \E fails \in [1..MAX_RETRIES -> BOOLEAN], tokenizer_fails \in BOOLEAN :
          LET RECURSIVE Loop(_)
              Loop(attempt) ==
                  IF ~fails[attempt + 1]
                  THEN [loaded |-> TRUE, attempts |-> attempt + 1]
                  ELSE IF attempt = MAX_RETRIES - 2
                  THEN [loaded |-> FALSE, attempts |-> attempt + 1]
                  ELSE Loop(attempt + 1)
              load == Loop(0)
              out == IF ~load.loaded
                     THEN Exc("RuntimeError", "Model initialization failed")
                     ELSE IF tokenizer_fails
                     THEN Exc("RuntimeError", "Tokenizer initialization failed")
                     ELSE Ret(None)
          IN  classifier' =
                [(IF out.raised THEN classifier ELSE FreshClassifier) EXCEPT
                    !.now = classifier.now,
                    !.calls = classifier.calls + 1,
                    !.last = [op |-> "construct", fails |-> fails,
                              out |-> out, attempts |-> load.attempts]]
    /\ UNCHANGED <<text, pc, intent_task, entity_task, outcome, calls,
                   semaphore, metrics, batch, vin, vout, endpoint, first>>
    /\ UNCHANGED <<extractor, workers, service>>

\* IntentClassifier(config), lines 62-86: the model load is tried until an
\* attempt does not raise, and the last attempt that raises ends the
\* construction with RuntimeError; the preprocessor is constructed after
\* it, with no retry.  A construction that returns gives the instance that
\* is used from then on, with empty caches; one that raises leaves the
\* instance in use as it is.
Construct ==
    /\ classifier.calls < MaxCalls
    /\ \E fails \in [1..MAX_RETRIES -> BOOLEAN], tokenizer_fails \in BOOLEAN :
          LET RECURSIVE Loop(_)
              Loop(attempt) ==
                  IF ~fails[attempt + 1]
                  THEN [loaded |-> TRUE, attempts |-> attempt + 1]
                  ELSE IF attempt = MAX_RETRIES - 1
                  THEN [loaded |-> FALSE, attempts |-> attempt + 1]
                  ELSE Loop(attempt + 1)
              load == Loop(0)
              out == IF ~load.loaded
                     THEN Exc("RuntimeError", "Model initialization failed")
                     ELSE IF tokenizer_fails
                     THEN Exc("RuntimeError", "Tokenizer initialization failed")
                     ELSE Ret(None)
          IN  classifier' =
                [(IF out.raised THEN classifier ELSE FreshClassifier) EXCEPT
                    !.now = classifier.now,
                    !.calls = classifier.calls + 1,
                    !.last = [op |-> "construct", fails |-> fails,
                              out |-> out, attempts |-> load.attempts]]
    /\ UNCHANGED <<text, pc, intent_task, entity_task, outcome, calls,
                   semaphore, metrics, batch, vin, vout, endpoint, first>>
    /\ UNCHANGED <<extractor, workers, service>>

RetriesNext == Construct \/ TokenizeText \/ ClassifyIntent

SpecRetries == ClassifierInit /\ [][RetriesNext]_vars

\* predict_proba(t)
PredictProba ==
    /\ classifier.calls < MaxCalls
    /\ \E t \in ClassifierTexts :
       \E failure \in IF TransformRejects(t) THEN {"none"} ELSE Failures :
          LET call == PredictProbaCall(classifier, t, failure)
          IN  classifier' =
                AfterCall(call,
                          [op |-> "predict_proba", text |-> t,
                           out |-> call.out, ran |-> call.ran],
                          classifier.seen)
    /\ UNCHANGED <<text, pc, intent_task, entity_task, outcome, calls,
                   semaphore, metrics, batch, vin, vout, endpoint, first>>
    /\ UNCHANGED <<extractor, workers, service>>

\* the calls on the classifier, predict_proba among them
ProbaNext == ClassifierNext \/ PredictProba

SpecProba == ClassifierInit /\ [][ProbaNext]_vars

\* ----------------------------------------------------------------------
\* Specification: calls on one EntityExtractor
\* ----------------------------------------------------------------------

\* the number of calls made on the extractor
MaxExtractorCalls == 2

\* the extractor after a call: what the call left, and the call with the
\* metrics it found
AfterExtraction(call, op, arg) ==
    [extractor EXCEPT !.tokens = call.tokens, !.metrics = call.metrics,
                      !.inferences = @ + call.ran, !.calls = @ + 1,
                      !.last = [op |-> op, arg |-> arg, out |-> call.out,
                                ran |-> call.ran,
                                metrics |-> extractor.metrics]]

\* extract_entities(t)
ExtractEntities ==
    /\ extractor.calls < MaxExtractorCalls
    /\ \E t \in ExtractorTexts :
       \E failure \in IF InvalidText(t) THEN {"none"} ELSE Failures :
          extractor' = AfterExtraction(ExtractEntitiesCall(extractor, t, failure),
                                       "extract_entities", t)
    /\ UNCHANGED <<text, pc, intent_task, entity_task, outcome, calls,
                   semaphore, metrics, batch, vin, vout, endpoint, first>>
    /\ UNCHANGED <<classifier, workers, service>>

\* extract_batch(arg)
ExtractBatch ==
    /\ extractor.calls < MaxExtractorCalls
    /\ \E arg \in ExtractorBatches :
       \E failure \in IF InvalidBatch(arg) THEN {"none"} ELSE Failures :
          extractor' = AfterExtraction(ExtractBatchCall(extractor, arg, failure),
                                       "extract_batch", arg)
    /\ UNCHANGED <<text, pc, intent_task, entity_task, outcome, calls,
                   semaphore, metrics, batch, vin, vout, endpoint, first>>
    /\ UNCHANGED <<classifier, workers, service>>

\* extractor.cleanup_resources()
CleanupResources ==
    /\ extractor.calls < MaxExtractorCalls
    /\ LET call == CleanupResourcesCall(extractor)
       IN  extractor' =
             [extractor EXCEPT !.model_cache = call.model_cache,
                               !.metrics = call.metrics,
                               !.calls = @ + 1,
                               !.last = [op |-> "cleanup_resources",
                                         arg |-> << >>,
                                         prev |-> extractor.last.op,
                                         out |-> call.out, ran |-> 0,
                                         metrics |-> extractor.metrics]]
    /\ UNCHANGED <<text, pc, intent_task, entity_task, outcome, calls,
                   semaphore, metrics, batch, vin, vout, endpoint, first>>
    /\ UNCHANGED <<classifier, workers, service>>

ExtractorInit ==
    /\ Submitted(ListOf(<< >>), << >>)
    /\ vin = Pending
    /\ vout = Pending
    /\ endpoint = Pending
    /\ classifier = FreshClassifier
    /\ first = [r \in Req |-> "untracked"]
    /\ \E size \in {1, DEFAULT_BATCH_SIZE} : extractor = NewExtractor(size)
    /\ workers = NoWorkers
    /\ service = FreshService

ExtractorNext == ExtractEntities \/ ExtractBatch \/ CleanupResources

SpecExtractor == ExtractorInit /\ [][ExtractorNext]_vars

\* ----------------------------------------------------------------------
\* Specification: the calls made on the package's orchestrator, one after
\* the other: process_text, process_batch, the health probe of GET /health
\* and the package's cleanup_resources.
\* ----------------------------------------------------------------------

\* the orchestrator's record of the calls: their number, the number of
\* cleanups among them, and the last call with the metrics it found
AfterServiceCall(op, out, cleanups) ==
    [service EXCEPT
        !.calls = @ + 1,
        !.cleanups = @ + cleanups,
        !.last = [op |-> op, out |-> out, metrics |-> metrics]]

\* language_processor.process_text(t)
ProcessTextCall ==
    /\ service.calls < MaxCalls
    /\ \E t \in Texts :
       \E out \in TextOutcomes(t) :
          /\ metrics' = MetricsAfter(metrics, <<out>>, <<1>>)
          /\ service' = AfterServiceCall("process_text", out, 0)
    /\ UNCHANGED <<text, pc, intent_task, entity_task, outcome, calls,
                   semaphore, batch, vin, vout, endpoint, first>>
    /\ UNCHANGED <<classifier, extractor, workers>>

\* language_processor.process_batch(arg)
ProcessBatchCall ==
    /\ service.calls < MaxCalls
    /\ \E arg \in {NoneBatch, ListOf(<< >>), ListOf(<<ValidText>>),
                    ListOf(<<ValidText, Str(0)>>)} :
          LET v == ValidateBatch(arg)
          IN  IF v.raised
              THEN /\ metrics' = metrics
                   /\ service' = AfterServiceCall("process_batch", v, 0)
              ELSE \E outs \in ItemOutcomes(arg.items),
                      order \in Orders(Len(arg.items)) :
                     /\ metrics' = MetricsAfter(metrics, outs, order)
                     /\ service' =
                           AfterServiceCall(
                               "process_batch",
                               Ret(ProcessedResults(
                                       Gather(Len(arg.items), outs), arg.items)),
                               0)
    /\ UNCHANGED <<text, pc, intent_task, entity_task, outcome, calls,
                   semaphore, batch, vin, vout, endpoint, first>>
    /\ UNCHANGED <<classifier, extractor, workers>>

\* language_processor.process_text(t) on a text that passes the validation
\* and the preprocessing, with the orchestrator's own classifier and
\* extractor: the two inference calls run on their caches, each fails or
\* not, and the merge of what they deliver is returned or raised
ProcessTextPipeline ==
    /\ service.calls < MaxCalls
    /\ \E t \in {Str(1), Str(2), Str(3), Str(5)} :
       \E fi, fe \in {"none", "model"} :
          LET io == ClassifyIntentCall(classifier, t, fi)
              eo == ExtractEntitiesCall(extractor, t, fe)
              out == ProcessTextAlone(t, Ret("encoding"), io.out, eo.out)
          IN  /\ classifier' = [classifier EXCEPT
                                    !.cache = io.cache,
                                    !.tokens = io.tokens,
                                    !.inferences = @ + io.ran]
              /\ extractor' = [extractor EXCEPT
                                   !.tokens = eo.tokens,
                                   !.metrics = eo.metrics,
                                   !.inferences = @ + eo.ran]
              /\ metrics' = MetricsAfter(metrics, <<out>>, <<1>>)
              /\ service' =
                    [AfterServiceCall("process_text", out, 0) EXCEPT
                        !.last = [op |-> "process_text", out |-> out,
                                  metrics |-> metrics, pipeline |-> t]]
    /\ UNCHANGED <<text, pc, intent_task, entity_task, outcome, calls,
                   semaphore, batch, vin, vout, endpoint, first>>
    /\ UNCHANGED workers

\* GET /health: the probe is a process_text call on a fixed text; the
\* handler answers 200 when it returns and 503 when it raises
HealthCheck ==
    /\ service.calls < MaxCalls
    /\ \E out \in TextOutcomes(ValidText) :
          /\ metrics' = MetricsAfter(metrics, <<out>>, <<1>>)
          /\ service' =
                AfterServiceCall("health",
                                 IF out.raised
                                 THEN HTTPException(503, out.msg)
                                 ELSE Ret([status |-> "healthy"]),
                                 0)
    /\ UNCHANGED <<text, pc, intent_task, entity_task, outcome, calls,
                   semaphore, batch, vin, vout, endpoint, first>>
    /\ UNCHANGED <<classifier, extractor, workers>>

\* the package's cleanup_resources(): it calls cleanup_resources of the
\* orchestrator's entity extractor and closes the log handlers; the
\* orchestrator has no _cache attribute; it returns None
PackageCleanup ==
    /\ service.calls < MaxCalls
    /\ LET call == CleanupResourcesCall(extractor)
       IN  extractor' = [extractor EXCEPT !.model_cache = call.model_cache,
                                          !.metrics = call.metrics]
    /\ service' = AfterServiceCall("cleanup_resources", Ret(None), 1)
    /\ UNCHANGED <<text, pc, intent_task, entity_task, outcome, calls,
                   semaphore, metrics, batch, vin, vout, endpoint, first>>
    /\ UNCHANGED <<classifier, workers>>

ServiceInit ==
    /\ Submitted(ListOf(<< >>), << >>)
    /\ vin = Pending
    /\ vout = Pending
    /\ endpoint = Pending
    /\ classifier = FreshClassifier
    /\ first = [r \in Req |-> "untracked"]
    /\ extractor = FreshExtractor
    /\ workers = NoWorkers
    /\ service = FreshService

ServiceNext ==
    ProcessTextCall \/ ProcessBatchCall \/ HealthCheck \/ PackageCleanup

SpecService == ServiceInit /\ [][ServiceNext]_vars

\* Specification: process_text calls that reach the two inference calls,
\* on the orchestrator's classifier and extractor with their caches, and
\* the package's cleanup_resources between them.
PipelineNext == ProcessTextPipeline \/ PackageCleanup

SpecPipeline == ServiceInit /\ [][PipelineNext]_vars

\* ----------------------------------------------------------------------
\* Specification: the request ids.  An invocation of process_text reads
\* datetime.now() when it starts and makes its request id from the reading
\* alone, so a request id is named by the reading.  The invocations are
\* those of single process_text calls and those of the items of
\* process_batch calls, whose tasks start one after the other.
\* ----------------------------------------------------------------------

\* the wall clock stops after this many ticks
MaxTimestamp == 3

\* the items of a batch in a run: process_batch creates one task per item
MaxItems == 2

\* process_text, lines 82-83: start_time = datetime.now() and
\* request_id = f"req_{start_time.timestamp()}"
StartProcessText ==
    /\ service.calls < MaxCalls
    /\ service' = [service EXCEPT
                      !.calls = @ + 1,
                      !.invocations = @ + 1,
                      !.request_ids = @ \cup {service.clock},
                      !.last = [op |-> "process_text",
                                request_ids |-> <<service.clock>>]]
    /\ UNCHANGED <<text, pc, intent_task, entity_task, outcome, calls,
                   semaphore, metrics, batch, vin, vout, endpoint, first>>
    /\ UNCHANGED <<classifier, extractor, workers>>

\* process_batch, lines 165-172: one task per item; each task runs lines
\* 82-83 of process_text when it starts, and the clock has advanced between
\* the starts of two tasks or it has not
StartBatchItems ==
    /\ service.calls < MaxCalls
    /\ \E n \in 1..MaxItems :
       \E stamps \in [1..n -> service.clock..MaxTimestamp] :
          /\ stamps[1] = service.clock
          /\ \A i \in 1..(n - 1) : stamps[i] <= stamps[i + 1]
          /\ service' = [service EXCEPT
                            !.calls = @ + 1,
                            !.invocations = @ + n,
                            !.clock = stamps[n],
                            !.request_ids = @ \cup {stamps[i] : i \in 1..n},
                            !.last = [op |-> "process_batch",
                                      request_ids |-> stamps]]
    /\ UNCHANGED <<text, pc, intent_task, entity_task, outcome, calls,
                   semaphore, metrics, batch, vin, vout, endpoint, first>>
    /\ UNCHANGED <<classifier, extractor, workers>>

\* the wall clock advances by one tick of its resolution
ClockAdvance ==
    /\ service.clock < MaxTimestamp
    /\ service' = [service EXCEPT !.clock = @ + 1]
    /\ UNCHANGED <<text, pc, intent_task, entity_task, outcome, calls,
                   semaphore, metrics, batch, vin, vout, endpoint, first>>
    /\ UNCHANGED <<classifier, extractor, workers>>

RequestIdsNext == StartProcessText \/ StartBatchItems \/ ClockAdvance

SpecRequestIds == ServiceInit /\ [][RequestIdsNext]_vars

\* ----------------------------------------------------------------------
\* Specification: classify_intent and extract_entities in worker threads.
\* process_text hands both to asyncio.to_thread, so the calls of the
\* invocations inside the dispatch section run in threads of the default
\* executor, on the one classifier, the one extractor and their
\* preprocessors.  A step of a classify_intent thread is one access to a
\* cache, a step of an extract_entities thread is one access to the
\* extractor's counter; none of classify_intent, extract_entities and
\* tokenize_text takes a lock.
\* ----------------------------------------------------------------------

\* the number of threads that run at the same time
MaxWorkers == 2

\* the texts of the invocations: two of the same hash and one of another
WorkerTexts == {Str(1), Str(2), Str(3)}

\* asyncio.to_thread(self._intent_classifier.classify_intent, t)
DispatchClassify(w) ==
    /\ workers[w].pc \in {"idle", "done"}
    /\ classifier.calls < MaxCalls
    /\ \E t \in WorkerTexts :
          workers' = [workers EXCEPT ![w] = [pc |-> "called", text |-> t]]
    /\ classifier' = [classifier EXCEPT !.calls = @ + 1]
    /\ UNCHANGED <<text, pc, intent_task, entity_task, outcome, calls,
                   semaphore, metrics, batch, vin, vout, endpoint, first>>
    /\ UNCHANGED <<extractor, service>>

\* classify_intent, lines 103-105: the result cache is read
CheckResultCache(w) ==
    /\ workers[w].pc = "called"
    /\ LET key == Hash(workers[w].text)
       IN  workers' =
             [workers EXCEPT ![w] =
                 IF Cached(classifier.cache, key, classifier.now)
                 THEN [pc |-> "done", text |-> @.text,
                       out |-> Ret(classifier.cache[key].result), ran |-> 0]
                 ELSE [pc |-> "missed", text |-> @.text]]
    /\ UNCHANGED <<text, pc, intent_task, entity_task, outcome, calls,
                   semaphore, metrics, batch, vin, vout, endpoint, first>>
    /\ UNCHANGED <<classifier, extractor, service>>

\* tokenize_text, lines 136-138: the token cache is read
CheckTokenCache(w) ==
    /\ workers[w].pc = "missed"
    /\ LET key == Hash(workers[w].text)
       IN  workers' =
             [workers EXCEPT ![w] =
                 IF classifier.tokens[key].present
                 THEN [pc |-> "encoded", text |-> @.text,
                       encoding |-> classifier.tokens[key].text]
                 ELSE [pc |-> "tokenizing", text |-> @.text]]
    /\ UNCHANGED <<text, pc, intent_task, entity_task, outcome, calls,
                   semaphore, metrics, batch, vin, vout, endpoint, first>>
    /\ UNCHANGED <<classifier, extractor, service>>

\* tokenize_text, lines 140-161: the text is tokenized and its encoding
\* is assigned to the key
StoreTokens(w) ==
    /\ workers[w].pc = "tokenizing"
    /\ classifier' =
          [classifier EXCEPT
              !.tokens[Hash(workers[w].text)] =
                  [present |-> TRUE, text |-> workers[w].text]]
    /\ workers' = [workers EXCEPT ![w] = [pc |-> "encoded", text |-> @.text,
                                          encoding |-> @.text]]
    /\ UNCHANGED <<text, pc, intent_task, entity_task, outcome, calls,
                   semaphore, metrics, batch, vin, vout, endpoint, first>>
    /\ UNCHANGED <<extractor, service>>

\* classify_intent, lines 111-145: the model runs on the encoding and the
\* result is assigned to the key
StoreResult(w) ==
    /\ workers[w].pc = "encoded"
    /\ LET result == Classified(workers[w].encoding, classifier.threshold)
       IN  /\ classifier' =
                 [classifier EXCEPT
                     !.cache = Store(@, Hash(workers[w].text), result,
                                     classifier.now),
                     !.inferences = @ + 1]
           /\ workers' = [workers EXCEPT ![w] =
                             [pc |-> "done", text |-> @.text,
                              out |-> Ret(result), ran |-> 1]]
    /\ UNCHANGED <<text, pc, intent_task, entity_task, outcome, calls,
                   semaphore, metrics, batch, vin, vout, endpoint, first>>
    /\ UNCHANGED <<extractor, service>>

\* asyncio.to_thread(self._entity_extractor.extract_entities, t), on a
\* text whose extraction succeeds
DispatchExtract(w) ==
    /\ workers[w].pc \in {"idle", "done"}
    /\ extractor.calls < MaxExtractorCalls
    /\ \E t \in WorkerTexts :
          workers' = [workers EXCEPT ![w] = [pc |-> "extracting", text |-> t]]
    /\ extractor' = [extractor EXCEPT !.calls = @ + 1]
    /\ UNCHANGED <<text, pc, intent_task, entity_task, outcome, calls,
                   semaphore, metrics, batch, vin, vout, endpoint, first>>
    /\ UNCHANGED <<classifier, service>>

\* extract_entities, lines 147-180: the text is tokenized, the model runs,
\* the entities are collected, and the thread reads
\* self._performance_metrics['processed_texts'], the first half of the
\* statement `... += 1`, which takes no lock
LoadProcessedTexts(w) ==
    /\ workers[w].pc = "extracting"
    /\ LET call == ExtractEntitiesCall(extractor, workers[w].text, "none")
       IN  /\ extractor' = [extractor EXCEPT !.tokens = call.tokens,
                                             !.inferences = @ + call.ran]
           /\ workers' =
                 [workers EXCEPT ![w] =
                     IF call.out.raised
                     THEN [pc |-> "done", text |-> @.text,
                           out |-> call.out, ran |-> call.ran]
                     ELSE [pc |-> "adding", text |-> @.text,
                           out |-> call.out,
                           read |-> extractor.metrics.processed_texts]]
    /\ UNCHANGED <<text, pc, intent_task, entity_task, outcome, calls,
                   semaphore, metrics, batch, vin, vout, endpoint, first>>
    /\ UNCHANGED <<classifier, service>>

\* extract_entities, lines 180-187: the thread assigns the value it read
\* plus one to 'processed_texts', adds the number of entities to
\* 'successful_extractions', and returns the entities
StoreProcessedTexts(w) ==
    /\ workers[w].pc = "adding"
    /\ extractor' =
          [extractor EXCEPT
              !.metrics = [processed_texts |-> workers[w].read + 1,
                           successful_extractions |->
                               @.successful_extractions
                                   + Len(workers[w].out.value)]]
    /\ workers' = [workers EXCEPT ![w] = [pc |-> "done", text |-> @.text,
                                          out |-> @.out, ran |-> 1]]
    /\ UNCHANGED <<text, pc, intent_task, entity_task, outcome, calls,
                   semaphore, metrics, batch, vin, vout, endpoint, first>>
    /\ UNCHANGED <<classifier, service>>

WorkersInit ==
    /\ Submitted(ListOf(<< >>), << >>)
    /\ vin = Pending
    /\ vout = Pending
    /\ endpoint = Pending
    /\ classifier = FreshClassifier
    /\ first = [r \in Req |-> "untracked"]
    /\ extractor = FreshExtractor
    /\ workers = [w \in 1..MaxWorkers |-> [pc |-> "idle"]]
    /\ service = FreshService

WorkersNext ==
    \E w \in 1..MaxWorkers :
        \/ DispatchClassify(w)
        \/ CheckResultCache(w)
        \/ CheckTokenCache(w)
        \/ StoreTokens(w)
        \/ StoreResult(w)
        \/ DispatchExtract(w)
        \/ LoadProcessedTexts(w)
        \/ StoreProcessedTexts(w)

SpecWorkers == WorkersInit /\ [][WorkersNext]_vars

\* ----------------------------------------------------------------------
\* Specification of the dispatch section with the completion order
\* observed: two process_text calls with valid texts on a fresh processor,
\* for each of which `first` records which of its two inference calls
\* completed first.  With two invocations the semaphore never suspends a
\* caller, so no invocation waits to be woken.
\* ----------------------------------------------------------------------

OrderInit ==
    /\ Submitted(ListOf(<< >>), <<ValidText, ValidText>>)
    /\ vin = Pending
    /\ vout = Pending
    /\ endpoint = Pending
    /\ classifier = FreshClassifier
    /\ first = [r \in Req |-> "none"]
    /\ extractor = FreshExtractor
    /\ workers = NoWorkers
    /\ service = FreshService

OrderNext ==
    \/ \E r \in Req : Start(r)
    \/ \E r \in Req : IntentDone(r)
    \/ \E r \in Req : EntityDone(r)
    \/ \E r \in Req : Resume(r)

SpecOrder == OrderInit /\ [][OrderNext]_vars

\* ----------------------------------------------------------------------
\* Specification with fairness, for the progress of suspended requests.
\* Every step of Next is the event loop running a coroutine that is ready
\* (Start, Acquired, Resume, BatchStart, BatchFinish) or a worker thread
\* finishing its inference call (IntentDone, EntityDone).  The event loop
\* runs every ready callback and the inference calls are taken to
\* terminate, so a step that is possible is eventually taken.  No step can
\* be undone and every step moves one invocation or the batch forward, so
\* weak fairness of Next gives each of them its turn.
\* ----------------------------------------------------------------------

SpecLive == Spec /\ WF_vars(Next)

\* ======================================================================
\* Properties
\* ======================================================================

\* the invocations that hold a slot with their inference calls in flight
InDispatch == {r \in Req : pc[r] = "dispatched"}

\* invocation r has returned or raised
Over(r) == pc[r] \in {"done", "failed"}

\* the text is empty, is not a string, or is longer than max_sequence_length
InvalidInput(t) ==
    ~IsStr(t) \/ t.len = 0 \/ t.len > DEFAULT_MAX_SEQUENCE_LENGTH

\* C1: process_text called with an empty string, a non-string value or a
\* text longer than max_sequence_length raises ValueError, and it does so
\* before the preprocessor, the classifier or the extractor is invoked and
\* before a concurrency slot is acquired.
C1_InvalidInputRaisesValueError ==
    \A r \in Req :
        InvalidInput(text[r]) =>
            /\ pc[r] \in {"none", "created", "failed"}
            /\ calls[r] = NoCalls
            /\ pc[r] = "failed" => outcome[r].cls = "ValueError"

\* C2: at every moment at most 10 process_text invocations are inside the
\* dispatch section, whatever the number of single calls and batch items
\* submitted.
C2_AtMostTenInDispatch == Cardinality(InDispatch) <= 10

\* C2 witness: ten invocations are in the section and an eleventh is
\* suspended on the semaphore
C2_FullAndOneWaiting ==
    /\ Cardinality(InDispatch) = 10
    /\ \E r \in Req : pc[r] = "waiting"

\* C3: if the intent classification or the entity extraction of a request
\* raises, process_text raises that exception and returns no result, even
\* when the other call returned; every returned result holds the intent of
\* the request's classification and the entities of its extraction.
C3_NoPartialResult ==
    \A r \in Req :
        /\ (/\ Over(r)
            /\ IsDone(intent_task[r]) /\ IsDone(entity_task[r])
            /\ intent_task[r].raised \/ entity_task[r].raised)
           => /\ pc[r] = "failed"
              /\ outcome[r].raised
              /\ "value" \notin DOMAIN outcome[r]
              /\ outcome[r] \in {intent_task[r], entity_task[r]}
        /\ pc[r] = "done"
           => /\ ~intent_task[r].raised /\ ~entity_task[r].raised
              /\ outcome[r].value.intent.name = intent_task[r].value.intent
              /\ outcome[r].value.entities = entity_task[r].value

\* C3 witness: an invocation failed on its extraction although its
\* classification had returned a result
C3_IntentResultDiscarded ==
    \E r \in Req :
        /\ pc[r] = "failed"
        /\ IsDone(intent_task[r]) /\ ~intent_task[r].raised
        /\ IsDone(entity_task[r]) /\ entity_task[r].raised

\* C4: in a batch of admissible size the failure of an item never makes the
\* batch call fail and never changes a sibling: a failing item i yields
\* {status: 'error', error, original_text: texts[i]} and a succeeding item
\* yields its validated result with status 'success'.
C4_ItemFailuresStayInline ==
    Admissible(batch.arg) =>
        /\ batch.pc # "failed"
        /\ batch.pc = "done" =>
              /\ ~batch.outcome.raised
              /\ \A i \in 1..Len(batch.arg.items) :
                    IF pc[i] = "failed"
                    THEN batch.outcome.value[i] =
                            [status |-> "error",
                             error |-> outcome[i].msg,
                             original_text |-> batch.arg.items[i]]
                    ELSE /\ pc[i] = "done"
                         /\ batch.outcome.value[i].status = "success"
                         /\ batch.outcome.value[i] = outcome[i].value

\* C4 witness: a batch returned with a failed first item beside a
\* successful second one
C4_ErrorBesideSuccess ==
    /\ batch.pc = "done"
    /\ Len(batch.arg.items) = 2
    /\ batch.outcome.value[1].status = "error"
    /\ batch.outcome.value[2].status = "success"
    /\ batch.arg.items[1] # batch.arg.items[2]

\* C5: the output of process_batch has the length of its input, and output
\* position i holds the outcome of input position i: an error record names
\* texts[i] and the error of invocation i, a result carries what the
\* inference calls of invocation i returned.
C5_PositionsAligned ==
    batch.pc = "done" =>
        /\ Len(batch.outcome.value) = Len(batch.arg.items)
        /\ \A i \in 1..Len(batch.arg.items) :
              LET out == batch.outcome.value[i]
              IN  /\ text[i] = batch.arg.items[i]
                  /\ out.status = "error"
                     => /\ pc[i] = "failed"
                        /\ out.original_text = batch.arg.items[i]
                        /\ out.error = outcome[i].msg
                  /\ out.status = "success"
                     => /\ pc[i] = "done"
                        /\ out.entities = entity_task[i].value
                        /\ out.intent.name = intent_task[i].value.intent
                  /\ out.status \in {"error", "success"}

\* C5 witness: a batch returned whose first item succeeded after its two
\* inference calls and whose second item failed in the input validation,
\* which completes without suspending
C5_SuccessBeforeError ==
    /\ batch.pc = "done"
    /\ Len(batch.arg.items) = 2
    /\ batch.outcome.value[1].status = "success"
    /\ batch.outcome.value[2].status = "error"
    /\ calls[2] = NoCalls

\* C6: process_batch called with an empty batch or a batch larger than the
\* limit raises ValueError for the whole batch, and process_text is invoked
\* for no item.
C6_BadBatchRaisesValueError ==
    (batch.arg.type = "list" /\ ~Admissible(batch.arg)) =>
        /\ batch.pc \in {"created", "failed"}
        /\ batch.pc = "failed" => batch.outcome.cls = "ValueError"
        /\ \A r \in Req : ~IsItem(r)

\* C7: every failing process_text call increments total_requests and
\* failed_requests by 1 each, leaves successful_requests unchanged and
\* sets last_error to the message of its error, in the step in which it
\* raises.
C7_FailureUpdatesMetrics ==
    [][\A r \in Req :
          (pc[r] # "failed" /\ pc'[r] = "failed") =>
              /\ outcome'[r].raised
              /\ metrics'.total_requests = metrics.total_requests + 1
              /\ metrics'.failed_requests = metrics.failed_requests + 1
              /\ metrics'.successful_requests = metrics.successful_requests
              /\ metrics'.last_error = outcome'[r].msg]_vars

\* C7 witness: three calls have failed, one in its classification, one in
\* its extraction and one in the merge, and the metrics count the three
C7_ThreeKindsOfFailure ==
    \E a, b, c \in Req :
        /\ pc[a] = "failed" /\ outcome[a].msg = "Intent classification failed"
        /\ pc[b] = "failed" /\ outcome[b].msg = "Entity extraction failed"
        /\ pc[c] = "failed" /\ outcome[c].msg = "Result validation failed: 'type'"
        /\ metrics.failed_requests = 3
        /\ metrics.total_requests = 3

\* C8: a process_batch call that fails as a whole updates the failure
\* metrics before the error propagates: failed_requests has increased and
\* last_error is set.
C8_BatchFailureUpdatesMetrics ==
    batch.pc = "failed" =>
        /\ metrics.failed_requests >= 1
        /\ metrics.last_error # None

\* the Required-Entities Table, as the specification states it
RequiredTypes(intent) ==
    CASE intent = "create_agent" -> {"AGENT_NAME", "INTEGRATION_TYPE"}
      [] intent \in {"modify_agent", "delete_agent"} -> {"AGENT_NAME"}
      [] intent = "configure_integration" -> {"INTEGRATION_TYPE"}
      [] OTHER -> {}

\* every entity of the list has a type
WellFormed(es) == \A i \in 1..Len(es) : "type" \in DOMAIN es[i]

\* C9: missing_entities is exactly the set of types the table requires for
\* the intent minus the types of the extracted entities, it is empty for an
\* intent that is no key of the table, and a non-empty set does not make
\* the call fail.
C9_MissingEntities ==
    (vout # Pending /\ WellFormed(vin.entities_result)) =>
        LET intent == Get(vin.intent_result, "intent", "unknown")
            present == {vin.entities_result[i].type :
                            i \in 1..Len(vin.entities_result)}
        IN  /\ ~vout.raised
            /\ vout.value.validation_details.missing_entities
                   = RequiredTypes(intent) \ present
            /\ intent \in {"query_status", "help", "unknown"}
                   => vout.value.validation_details.missing_entities = {}

\* C9 witness: create_agent with an AGENT_NAME entity only returns with
\* missing_entities = {INTEGRATION_TYPE}
C9_IntegrationTypeMissing ==
    /\ vout # Pending
    /\ ~vout.raised
    /\ vout.value.intent.name = "create_agent"
    /\ Len(vin.entities_result) = 1
    /\ vin.entities_result[1].type = "AGENT_NAME"
    /\ vout.value.validation_details.missing_entities = {"INTEGRATION_TYPE"}

\* C10: overall_confidence = (intent_confidence + avg_entity_confidence) / 2
\* with avg_entity_confidence the mean of the entity confidences, 0 for an
\* empty list; it lies in [0, 1] (confidences are in hundredths).
C10_OverallConfidence ==
    (vout # Pending /\ ~vout.raised) =>
        LET ic == Get(vin.intent_result, "confidence", 0)
            n == Len(vin.entities_result)
            oc == vout.value.overall_confidence
        IN  /\ oc.den > 0
            /\ IF n = 0
               THEN 2 * oc.num = ic * oc.den
               ELSE 2 * n * oc.num = (n * ic + SumConf(vin.entities_result)) * oc.den
            /\ 0 <= oc.num
            /\ oc.num <= 100 * oc.den

\* C10 witness: a call with an empty entity list returned, with half the
\* intent confidence
C10_EmptyEntityList ==
    /\ vout # Pending
    /\ ~vout.raised
    /\ vin.entities_result = << >>
    /\ vout.value.intent.confidence = 100
    /\ 2 * vout.value.overall_confidence.num
           = 100 * vout.value.overall_confidence.den

\* both inference calls of invocation r returned a value
BothReturned(r) ==
    /\ IsDone(intent_task[r]) /\ ~intent_task[r].raised
    /\ IsDone(entity_task[r]) /\ ~entity_task[r].raised

\* C11: process_text never fails because of low confidence: an invocation
\* whose two inference calls returned ends with a result of status
\* 'success' in which intent_valid = (intent confidence >= threshold) and
\* entities_valid = (mean entity confidence >= threshold), whatever the two
\* flags are; the only failure after two returned calls is the merge's own
\* exception on an entity without a type, which no confidence causes.
C11_LowConfidenceIsNoFailure ==
    \A r \in Req :
        (Over(r) /\ BothReturned(r)) =>
            LET ir == intent_task[r].value
                es == entity_task[r].value
            IN  /\ pc[r] = "failed"
                   => /\ ~WellFormed(es)
                      /\ outcome[r].msg = "Result validation failed: 'type'"
                /\ pc[r] = "done"
                   => /\ outcome[r].value.status = "success"
                      /\ outcome[r].value.validation_details.intent_valid
                            = (ir.confidence >= DEFAULT_CONFIDENCE_THRESHOLD)
                      /\ outcome[r].value.validation_details.entities_valid
                            = (/\ es # << >>
                               /\ SumConf(es)
                                     >= DEFAULT_CONFIDENCE_THRESHOLD * Len(es))

\* C11 witness: an invocation returned a result of status 'success' whose
\* two flags are false
C11_SuccessWithBothFlagsFalse ==
    \E r \in Req :
        /\ pc[r] = "done"
        /\ outcome[r].value.status = "success"
        /\ ~outcome[r].value.validation_details.intent_valid
        /\ ~outcome[r].value.validation_details.entities_valid

\* the handler rejected the request itself: empty text, oversized batch
RejectedByEndpoint ==
    endpoint.error.raised /\ endpoint.error.cls = "HTTPException"

\* the request failed in the inference of one of the two models
FailedInInference ==
    /\ endpoint.error.raised
    /\ endpoint.error.msg \in {"Intent classification failed",
                                "Entity extraction failed"}

\* C12: at the transport endpoints a request rejected for input validation
\* (empty text, oversized batch) is answered with a client error status
\* (4xx) and an inference failure of either model with a server error
\* status (5xx), so that the two differ in status and error code.
C12_ClientAndServerErrorsDistinct ==
    endpoint # Pending =>
        /\ RejectedByEndpoint
              => /\ endpoint.response.status_code >= 400
                 /\ endpoint.response.status_code <= 499
                 /\ endpoint.response
                       # ErrorResponse(IF endpoint.path = "/process"
                                       THEN "PROCESSING_ERROR"
                                       ELSE "BATCH_PROCESSING_ERROR")
        /\ FailedInInference
              => /\ endpoint.response.status_code >= 500
                 /\ endpoint.response.status_code <= 599

\* C13: within one process_text invocation the intent classifier and the
\* entity extractor are each invoked at most once: a call that has completed
\* is never issued again, and once the invocation has returned or raised
\* neither collaborator is invoked for it again (no retry).
C13_NoRetry ==
    [][\A r \in Req :
          /\ calls'[r].classify_intent <= 1
          /\ calls'[r].extract_entities <= 1
          /\ IsDone(intent_task[r]) => intent_task'[r] = intent_task[r]
          /\ IsDone(entity_task[r]) => entity_task'[r] = entity_task[r]
          /\ Over(r) => calls'[r] = calls[r]]_vars

\* C13 witness: an invocation has failed on its classification, and each
\* collaborator was invoked once for it
C13_FailedAfterOneCallEach ==
    \E r \in Req :
        /\ pc[r] = "failed"
        /\ intent_task[r] = Exc("RuntimeError", "Intent classification failed")
        /\ calls[r].classify_intent = 1
        /\ calls[r].extract_entities = 1

\* C14: the outcome of process_text is the same whether the intent
\* classification or the entity extraction completes first: two finished
\* invocations of the same text whose classifications returned or raised
\* the same and whose extractions returned or raised the same have the
\* same outcome, the merged result or the failure, whatever the order in
\* which their calls completed.
C14_CompletionOrderIrrelevant ==
    \A r, s \in Req :
        (/\ Over(r) /\ Over(s)
         /\ text[r] = text[s]
         /\ IsDone(intent_task[r]) /\ intent_task[r] = intent_task[s]
         /\ IsDone(entity_task[r]) /\ entity_task[r] = entity_task[s])
        => /\ outcome[r] = outcome[s]
           /\ pc[r] = pc[s]

\* C14 witness: two invocations whose two calls both raised have finished,
\* the classification having completed first in one and the extraction
\* first in the other
C14_BothOrdersSeen ==
    \E r, s \in Req :
        /\ Over(r) /\ Over(s)
        /\ first[r] = "intent" /\ first[s] = "entity"
        /\ intent_task[r] = intent_task[s] /\ intent_task[r].raised
        /\ entity_task[r] = entity_task[s] /\ entity_task[r].raised

\* what the preprocessor did for invocation r, read off the state: an
\* invocation that called it and created no task failed in it
TransformOf(r) ==
    IF calls[r].transform = 1 /\ intent_task[r] = Idle /\ Over(r)
    THEN Exc("RuntimeError", "Tokenization failed after max retries")
    ELSE Ret("encoding")

\* process_text(text[r]) run alone with collaborators that behave for it as
\* they behaved for invocation r
Alone(r) ==
    ProcessTextAlone(text[r], TransformOf(r),
                     IF IsDone(intent_task[r]) THEN intent_task[r] ELSE Ret("none"),
                     IF IsDone(entity_task[r]) THEN entity_task[r] ELSE Ret("none"))

FailedBeforeDispatch(r) ==
    /\ pc[r] = "failed"
    /\ \/ ValidateInput(text[r]).raised
       \/ outcome[r].msg = "Tokenization failed after max retries"

\* the steps invocation r has left at most
StepsLeft(r) ==
    CASE pc[r] = "none" -> 7
      [] pc[r] = "created" -> 6
      [] pc[r] = "waiting" -> 5
      [] pc[r] = "woken" -> 4
      [] pc[r] = "dispatched" ->
            1 + (IF IsDone(intent_task[r]) THEN 0 ELSE 1)
              + (IF IsDone(entity_task[r]) THEN 0 ELSE 1)
      [] OTHER -> 0

RECURSIVE SumSteps(_)
SumSteps(n) == IF n = 0 THEN 0 ELSE StepsLeft(n) + SumSteps(n - 1)

\* the steps the run has left at most
Remaining ==
    SumSteps(Cardinality(Req))
        + (CASE batch.pc = "created" -> 2
             [] batch.pc = "gathering" -> 1
             [] OTHER -> 0)

PcSteps ==
    {<<"none", "created">>, <<"created", "failed">>,
     <<"created", "waiting">>, <<"created", "dispatched">>,
     <<"waiting", "woken">>, <<"woken", "dispatched">>,
     <<"dispatched", "done">>, <<"dispatched", "failed">>}

\* the invocations that return or raise in this step
Ending(to) == {r \in Req : pc[r] # to /\ pc'[r] = to}

\* C17: every process_text invocation moves through RECEIVED, VALIDATING,
\* DISPATCHED, MERGING, DONE in that order, or goes to FAILED from the
\* validation, the dispatch or the merge; the merge never starts before
\* both inference calls have completed; DONE and FAILED are terminal and
\* exclude each other: the invocation returns exactly when it is DONE and
\* raises exactly when it is FAILED, and its end is counted once, as a
\* success or as a failure.
C17_RequestStateMachine ==
    [][/\ \A r \in Req :
            /\ pc'[r] # pc[r] => <<pc[r], pc'[r]>> \in PcSteps
            /\ pc[r] = "dispatched" /\ pc'[r] # "dispatched" =>
                  IsDone(intent_task[r]) /\ IsDone(entity_task[r])
            /\ Over(r) => pc'[r] = pc[r] /\ outcome'[r] = outcome[r]
            /\ pc'[r] = "done" => ~outcome'[r].raised
            /\ pc'[r] = "failed" => outcome'[r].raised
            /\ ~Over(r) /\ pc'[r] \notin {"done", "failed"} =>
                  outcome'[r] = Pending
       /\ Cardinality(Ending("done") \cup Ending("failed")) <= 1
       /\ metrics'.successful_requests =
             metrics.successful_requests + Cardinality(Ending("done"))
       /\ batch' = batch =>
             metrics'.failed_requests =
                 metrics.failed_requests + Cardinality(Ending("failed"))]_vars

\* C17 witness: one invocation is DONE and another FAILED after its
\* dispatch, one success and one failure counted
C17_DoneAndFailedAfterDispatch ==
    \E r, q \in Req :
        /\ pc[r] = "done" /\ ~outcome[r].raised
        /\ pc[q] = "failed" /\ calls[q].classify_intent = 1
        /\ metrics.successful_requests = 1
        /\ metrics.failed_requests = 1

\* the call that has just been made on the classifier
JustCalled(op) ==
    /\ classifier'.calls = classifier.calls + 1
    /\ classifier'.last.op = op

\* text t has a top class probability: the model can be run on it
Classifiable(t) == ~TransformRejects(t)

\* C18: for every text whose top class probability is below the
\* classifier's confidence threshold classify_intent returns intent
\* 'unknown' with status 'low_confidence', and for a top probability equal
\* to or above the threshold it returns the arg-max label with status
\* 'success'.
C18_ThresholdGating ==
    classifier.last.op = "classify_intent"
        /\ Classifiable(classifier.last.text)
        /\ ~classifier.last.out.raised =>
    LET m == ModelOutput(classifier.last.text)
        got == classifier.last.out.value
    IN  IF m.confidence < classifier.threshold
        THEN got.intent = "unknown" /\ got.status = "low_confidence"
        ELSE got.intent = m.intent /\ got.status = "success"

\* the result cache and the token cache hold, under the hash of t, what
\* was computed for t itself
OwnEncoding(t) ==
    /\ classifier.tokens[Hash(t)].present
    /\ classifier.tokens[Hash(t)].text = t

\* C18, amended: for every text that is the first of its hash that the
\* classifier has tokenized, classify_intent returns intent 'unknown' with
\* status 'low_confidence' when the top class probability of the text is
\* below the confidence threshold, and the arg-max label with status
\* 'success' when it is equal to or above the threshold.
C18_ThresholdGatingOwnEncoding ==
    classifier.last.op = "classify_intent"
        /\ Classifiable(classifier.last.text)
        /\ ~classifier.last.out.raised
        /\ OwnEncoding(classifier.last.text) =>
    LET m == ModelOutput(classifier.last.text)
        got == classifier.last.out.value
    IN  /\ got.confidence = m.confidence
        /\ IF m.confidence < classifier.threshold
           THEN got.intent = "unknown" /\ got.status = "low_confidence"
           ELSE got.intent = m.intent /\ got.status = "success"

\* C18 witness: a text below the threshold is answered 'unknown' from the
\* cache, after a text of the same hash was classified
C18_LowConfidenceFromCache ==
    /\ classifier.last.op = "classify_intent"
    /\ classifier.last.text = Str(3)
    /\ OwnEncoding(Str(3))
    /\ ~classifier.last.out.raised
    /\ classifier.last.out.value.status = "low_confidence"
    /\ classifier.last.ran = 0
    /\ classifier.seen[Str(1)].present

\* C19: for every text T, two classify_intent(T) calls made within the
\* cache time-to-live that return a result return identical results,
\* whatever other classification calls happen in between.
C19_RepeatedCallsIdentical ==
    LET last == classifier.last
    IN  /\ last.op = "classify_intent"
        /\ ~last.out.raised
        /\ last.prev.present
        /\ ~last.prev.out.raised
        /\ last.at - last.prev.at < CacheTTL
        => last.out = last.prev.out

\* C19 witness: the second call on a text is made within the time-to-live
\* of the first, after the entry the first was served from has expired and
\* with another text of the same hash in the token cache; it runs the
\* inference anew
C19_SecondCallAfterExpiry ==
    LET last == classifier.last
    IN  /\ last.op = "classify_intent"
        /\ ~last.out.raised
        /\ last.prev.present
        /\ ~last.prev.out.raised
        /\ last.at - last.prev.at = TickStep
        /\ last.ran = 1
        /\ classifier.tokens[Hash(last.text)].text # last.text

\* C20: for every list of texts and every position i, classify_batch(texts)[i]
\* equals the result of classify_intent(texts[i]) called in isolation, with
\* the same cache semantics per item: an item whose text is cached and
\* unexpired is served from the cache without a new inference.
C20_BatchEqualsSingles ==
    [][JustCalled("classify_batch") /\ ~classifier'.last.out.raised =>
         LET ts == classifier'.last.arg.items
             alone == [i \in 1..Len(ts) |->
                          ClassifyIntentCall(classifier, ts[i], "none")]
         IN  /\ \A i \in 1..Len(ts) :
                    classifier'.last.out.value[i] = alone[i].out.value
             /\ classifier'.last.ran =
                    Cardinality({i \in 1..Len(ts) : alone[i].ran = 1})]_vars

\* C21: classify_intent called with an empty string raises an
\* input-validation failure (ValueError), distinct from the processing
\* failure (RuntimeError) raised for an inference failure, and never
\* returns a defaulted result.
C21_EmptyTextRaisesValueError ==
    classifier.last.op = "classify_intent"
        /\ classifier.last.text = Str(0) =>
    /\ classifier.last.out.raised
    /\ classifier.last.out.cls = "ValueError"

\* C22: classify_batch called with an empty list or with None raises an
\* input-validation failure (ValueError) instead of returning a result.
C22_EmptyBatchRaisesValueError ==
    classifier.last.op = "classify_batch"
        /\ classifier.last.arg \in {NoneBatch, ListOf(<< >>)} =>
    /\ classifier.last.out.raised
    /\ classifier.last.out.cls = "ValueError"

\* ----------------------------------------------------------------------
\* Properties of the EntityExtractor
\* ----------------------------------------------------------------------

\* the last call on the extractor was op and it returned
ExtractorReturned(op) ==
    extractor.last.op = op /\ ~extractor.last.out.raised

\* the model's output on the encoding that the extractor uses for text t
OutputFor(t) == ExtractorModel(extractor.tokens[Hash(t)].text)

\* entity en, returned for text t, comes from a position of the output that
\* is no padding and whose top probability is at least the threshold
FromReportedToken(en, t) ==
    /\ en.position \in 0..(Len(OutputFor(t)) - 1)
    /\ LET tok == OutputFor(t)[en.position + 1]
       IN  /\ tok.mask # 0
           /\ tok.prob >= extractor.threshold
           /\ en.confidence = tok.prob
    /\ en.confidence \in extractor.threshold..100
    /\ en.type \in ENTITY_TYPES

\* the entities ens, returned for text t, hold none from a position that is
\* padding or below the threshold
NoneFromOtherTokens(ens, t) ==
    \A p \in 1..Len(OutputFor(t)) :
        OutputFor(t)[p].mask = 0 \/ OutputFor(t)[p].prob < extractor.threshold
            => \A j \in 1..Len(ens) : ens[j].position # p - 1

EntitiesAsGated(ens, t) ==
    /\ \A j \in 1..Len(ens) : FromReportedToken(ens[j], t)
    /\ NoneFromOtherTokens(ens, t)

\* C23: every entity returned by extract_entities or extract_batch comes
\* from a non-padding position whose top class probability is at least the
\* confidence threshold: its confidence lies between the threshold and 1
\* (100 percent), its type is a key of ENTITY_TYPES, and no position that
\* is padding or below the threshold has an entity.
C23_EntitiesFromConfidentTokens ==
    /\ ExtractorReturned("extract_entities") =>
           EntitiesAsGated(extractor.last.out.value, extractor.last.arg)
    /\ ExtractorReturned("extract_batch") =>
           \A i \in 1..Len(extractor.last.arg.items) :
               EntitiesAsGated(extractor.last.out.value[i],
                               extractor.last.arg.items[i])

\* extract_entities returned one entity, at the threshold, for a text whose
\* encoding has a token below the threshold and a padding position above it
C23_EntityAtThreshold ==
    /\ ExtractorReturned("extract_entities")
    /\ extractor.last.arg = Str(2)
    /\ Len(extractor.last.out.value) = 1
    /\ extractor.last.out.value[1].confidence = extractor.threshold
    /\ \E p \in 1..Len(OutputFor(Str(2))) :
           OutputFor(Str(2))[p].mask = 0
               /\ OutputFor(Str(2))[p].prob >= extractor.threshold

\* the step is a call of op on the extractor
JustExtracted(op) ==
    /\ extractor'.calls = extractor.calls + 1
    /\ extractor'.last.op = op

\* no two different texts of ts have the same hash
OwnHashes(ts) ==
    \A i, j \in 1..Len(ts) : Hash(ts[i]) = Hash(ts[j]) => ts[i] = ts[j]

\* the entities are in the order of their positions
OrderedByPosition(ens) ==
    \A j, k \in 1..Len(ens) : j < k => ens[j].position < ens[k].position

\* the list that extract_batch returned in this step has the length of ts
\* and holds at i what extract_entities returns for ts[i], by position
BatchOfSingles(ts) ==
    LET alone == [i \in 1..Len(ts) |->
                     ExtractEntitiesCall(extractor, ts[i], "none").out]
        value == extractor'.last.out.value
    IN  /\ Len(value) = Len(ts)
        /\ \A i \in 1..Len(ts) :
               /\ ~alone[i].raised
               /\ value[i] = alone[i].value
               /\ OrderedByPosition(value[i])

\* C24 as stated: for every non-empty list of texts, the list that
\* extract_batch returns has the same length and holds at i the entity
\* list of texts[i], equal to extract_entities(texts[i]) and ordered by
\* position, whatever the number of sub-batches.
C24_BatchEqualsSingles ==
    [][JustExtracted("extract_batch") /\ ~extractor'.last.out.raised =>
         BatchOfSingles(extractor'.last.arg.items)]_vars

\* C24, amended: the same for every list in which no two different texts
\* share a hash.
C24_BatchEqualsSinglesOwnHashes ==
    [][JustExtracted("extract_batch") /\ ~extractor'.last.out.raised
           /\ OwnHashes(extractor'.last.arg.items) =>
         BatchOfSingles(extractor'.last.arg.items)]_vars

\* extract_batch returned the entities of two different texts that it
\* processed in two sub-batches
C24_TwoSubBatches ==
    /\ ExtractorReturned("extract_batch")
    /\ extractor.batch_size = 1
    /\ extractor.last.arg.items = <<Str(2), Str(3)>>
    /\ Len(extractor.last.out.value) = 2
    /\ Len(extractor.last.out.value[1]) = 1
    /\ Len(extractor.last.out.value[2]) = 2
    /\ extractor.last.ran = 2

\* None, the empty string and a list; None, the empty list and a string
EmptyOrNonString == {NoneText, Str(0), ListText(1)}
EmptyOrNonList == {NoneBatch, ListOf(<< >>), TextAsBatch}

\* the last call raised cls, ran no inference and left the metrics as it
\* found them
RaisedBeforeInference(cls) ==
    /\ extractor.last.out.raised
    /\ extractor.last.out.cls = cls
    /\ extractor.last.ran = 0
    /\ extractor.metrics = extractor.last.metrics

\* C25: extract_entities with an empty or non-string text and
\* extract_batch with an empty or non-list batch raise ValueError, run no
\* inference and leave the extractor's metrics unchanged; every failure
\* of a call whose argument passed the validation is raised as
\* RuntimeError.
C25_ValidationBeforeInference ==
    /\ extractor.last.op = "extract_entities" =>
           IF extractor.last.arg \in EmptyOrNonString
           THEN RaisedBeforeInference("ValueError")
           ELSE extractor.last.out.raised =>
                    /\ extractor.last.out.cls = "RuntimeError"
                    /\ extractor.metrics = extractor.last.metrics
    /\ extractor.last.op = "extract_batch" =>
           IF extractor.last.arg \in EmptyOrNonList
           THEN RaisedBeforeInference("ValueError")
           ELSE extractor.last.out.raised =>
                    /\ extractor.last.out.cls = "RuntimeError"
                    /\ extractor.metrics = extractor.last.metrics

\* extract_entities raised ValueError for the empty string on an extractor
\* that had processed a text
C25_EmptyTextAfterExtraction ==
    /\ extractor.last.op = "extract_entities"
    /\ extractor.last.arg = Str(0)
    /\ extractor.last.out.raised
    /\ extractor.last.out.cls = "ValueError"
    /\ extractor.metrics.processed_texts = 1
    /\ extractor.inferences = 1

\* what cleanup_resources leaves of extractor e: everything but the count
\* of the calls and the record of the last one
CleanupState(e) == [e EXCEPT !.calls = 0, !.last = [op |-> "none"]]

C26_CleanupAfterExtraction ==
    /\ extractor.last.op = "cleanup_resources"
    /\ extractor.last.metrics.successful_extractions > 0
    /\ extractor.metrics = InitExtractorMetrics

\* ----------------------------------------------------------------------
\* Properties of the orchestrator's metrics over sequences of calls
\* ----------------------------------------------------------------------

\* the step is a call of op on the orchestrator or the package
JustServed(op) ==
    /\ service'.calls = service.calls + 1
    /\ service'.last.op = op

Counters == {"total_requests", "successful_requests", "failed_requests"}

\* C27: a process_text call, a process_batch call and a health probe
\* decrease none of total_requests, successful_requests and
\* failed_requests, and so leave none of them at its initial value that
\* was beyond it; the counters still count every request: total_requests
\* is the sum of the other two.  (No step of this program resets them:
\* the package's cleanup_resources leaves them as they are.)
C27_CountersNeverDecrease ==
    [][/\ JustServed("process_text") \/ JustServed("process_batch")
              \/ JustServed("health") =>
           /\ \A c \in Counters : metrics'[c] >= metrics[c]
           /\ \A c \in Counters :
                  metrics[c] # InitMetrics[c] => metrics'[c] # InitMetrics[c]
           /\ metrics'.total_requests =
                  metrics'.successful_requests + metrics'.failed_requests
       /\ JustServed("health") =>
              metrics'.total_requests = metrics.total_requests + 1
       /\ JustServed("cleanup_resources") => metrics' = metrics]_vars

\* a health probe succeeded after a failed request and a cleanup, and the
\* counters hold both requests
C27_CountersAfterCleanupAndHealth ==
    /\ service.last.op = "health"
    /\ ~service.last.out.raised
    /\ service.cleanups = 1
    /\ service.last.metrics.failed_requests = 1
    /\ metrics.total_requests = 2
    /\ metrics.successful_requests = 1
    /\ metrics.failed_requests = 1

\* ----------------------------------------------------------------------
\* Properties of the caches under worker threads
\* ----------------------------------------------------------------------

\* thread w is between the check and the insert of the result cache for
\* the key, or of the token cache
InsideResultCache(w, key) ==
    /\ workers[w].pc \in {"missed", "tokenizing", "encoded"}
    /\ Hash(workers[w].text) = key

InsideTokenCache(w, key) ==
    /\ workers[w].pc = "tokenizing"
    /\ Hash(workers[w].text) = key

\* C28: the result cache and the token cache are read and updated under a
\* thread-safe discipline: no two threads are inside the check-then-insert
\* of the same cache at the same time.
C28_OneThreadInsideEachCache ==
    \A v, w \in 1..MaxWorkers :
        v # w =>
            /\ ~\E k, l \in HashKeys :
                   InsideResultCache(v, k) /\ InsideResultCache(w, l)
            /\ ~\E k, l \in HashKeys :
                   InsideTokenCache(v, k) /\ InsideTokenCache(w, l)

\* C28 for the entries of the caches: no two threads are inside the
\* check-then-insert of the same key of a cache at the same time.
C28_OneThreadInsideEachKey ==
    \A v, w \in 1..MaxWorkers :
        v # w =>
            \A k \in HashKeys :
                /\ ~(InsideResultCache(v, k) /\ InsideResultCache(w, k))
                /\ ~(InsideTokenCache(v, k) /\ InsideTokenCache(w, k))

\* C28, what the missing discipline costs: a text whose result is cached
\* and has not expired is not inferred again.
C28_OneInferencePerText ==
    classifier.inferences <= Cardinality({Hash(t) : t \in WorkerTexts})

\* ----------------------------------------------------------------------
\* Properties of the failure classes of process_text
\* ----------------------------------------------------------------------

\* the classes of the exceptions with which the preprocessing and the
\* two inference calls fail
InferenceFailureClasses ==
    {o.cls : o \in {x \in TransformOutcomes : x.raised}}
        \cup {o.cls : o \in {x \in IntentOutcomes : x.raised}}
        \cup {o.cls : o \in {x \in EntityOutcomes : x.raised}}

\* both inference calls of invocation r returned and the merge of what
\* they returned raises: an entity has no 'type' and the intent has
\* required entities
MergeRaises(r) ==
    /\ IsDone(intent_task[r]) /\ ~intent_task[r].raised
    /\ IsDone(entity_task[r]) /\ ~entity_task[r].raised
    /\ intent_task[r].value.intent \in DOMAIN required_entities
    /\ \E i \in 1..Len(entity_task[r].value) :
           "type" \notin DOMAIN entity_task[r].value[i]

\* an inference call of invocation r raised
InferenceRaised(r) ==
    /\ IsDone(intent_task[r]) /\ IsDone(entity_task[r])
    /\ intent_task[r].raised \/ entity_task[r].raised

\* C29: when the merge of the two outputs raises, process_text raises
\* ValueError('Result validation failed: ...'), whose class is none of the
\* classes with which an inference call fails; when an inference call
\* raised, process_text raises with one of those.
C29_MergeFailureIsValidationFailure ==
    \A r \in Req :
        IsDone(outcome[r]) =>
            /\ MergeRaises(r) =>
                   /\ outcome[r].raised
                   /\ outcome[r].cls = "ValueError"
                   /\ outcome[r].msg = "Result validation failed: 'type'"
                   /\ outcome[r].cls \notin InferenceFailureClasses
            /\ InferenceRaised(r) =>
                   /\ outcome[r].raised
                   /\ outcome[r].cls \in InferenceFailureClasses

\* an invocation failed in the merge and another in an inference call
C29_MergeFailedAndInferenceFailed ==
    \E r, q \in Req :
        /\ IsDone(outcome[r]) /\ MergeRaises(r)
        /\ outcome[r].raised /\ outcome[r].cls = "ValueError"
        /\ IsDone(outcome[q]) /\ InferenceRaised(q)
        /\ outcome[q].raised /\ outcome[q].cls = "RuntimeError"

\* ----------------------------------------------------------------------
\* Properties of predict_proba
\* ----------------------------------------------------------------------

\* the label of the greatest value of the dict d, as
\* max(d.items(), key=lambda x: x[1])[0] finds it
ArgMaxLabel(d) ==
    IntentLabelList[ArgMax([i \in 1..Len(IntentLabelList) |->
                               d[IntentLabelList[i]]])]

\* the intent that classify_intent(t) returns on classifier c
IntentOf(c, t) == ClassifyIntentCall(c, t, "none").out.value.intent

\* C30: predict_proba(T), when it returns, returns one probability for
\* each label of INTENT_LABELS, and when the greatest of them is at or
\* above the threshold its label is the intent that classify_intent(T)
\* returns, called before predict_proba or after it.
C30_ArgMaxIsTheIntent ==
    [][JustCalled("predict_proba") /\ ~classifier'.last.out.raised =>
         LET d == classifier'.last.out.value
             t == classifier'.last.text
         IN  /\ DOMAIN d = INTENT_LABELS
             /\ \A l \in INTENT_LABELS : d[l] \in 0..100
             /\ d[ArgMaxLabel(d)] >= classifier.threshold =>
                    /\ IntentOf(classifier, t) = ArgMaxLabel(d)
                    /\ IntentOf(classifier', t) = ArgMaxLabel(d)]_vars

\* predict_proba returned, for a text whose top probability is below the
\* threshold, the probabilities of the text that took its hash first,
\* whose classification is cached
C30_ProbabilitiesOfCachedText ==
    /\ classifier.last.op = "predict_proba"
    /\ classifier.last.text = Str(3)
    /\ ~classifier.last.out.raised
    /\ classifier.last.out.value["create_agent"] = 97
    /\ Cached(classifier.cache, Hash(Str(3)), classifier.now)

\* ----------------------------------------------------------------------
\* Properties of the metrics under concurrent invocations
\* ----------------------------------------------------------------------

\* the process_text invocations that have returned or raised
FinishedInvocations == {r \in Req : IsDone(outcome[r])}

\* C33: in every reachable state, whatever the interleaving of the
\* invocations, total_requests is the sum of successful_requests and
\* failed_requests and is the number of the process_text invocations that
\* have finished, of which successful_requests returned and
\* failed_requests raised.
C33_EveryFinishedInvocationCountedOnce ==
    /\ metrics.total_requests =
           metrics.successful_requests + metrics.failed_requests
    /\ metrics.total_requests = Cardinality(FinishedInvocations)
    /\ metrics.successful_requests =
           Cardinality({r \in FinishedInvocations : ~outcome[r].raised})
    /\ metrics.failed_requests =
           Cardinality({r \in FinishedInvocations : outcome[r].raised})

\* an invocation returned and another raised while a third is inside the
\* dispatch section
C33_TwoFinishedOneInFlight ==
    /\ metrics.successful_requests = 1
    /\ metrics.failed_requests = 1
    /\ \E r \in Req : pc[r] = "dispatched"

\* ----------------------------------------------------------------------
\* Properties of the slots of the semaphore
\* ----------------------------------------------------------------------

\* the invocations that hold a slot: those inside the dispatch section and
\* those a release handed its slot to, which have yet to resume
SlotHolders == {r \in Req : pc[r] \in {"dispatched", "woken"}}

\* an inference call of invocation r is running
InferenceRunning(r) ==
    \/ "pending" \in DOMAIN intent_task[r]
    \/ "pending" \in DOMAIN entity_task[r]

\* C34: every slot is free or held by one invocation, so that every exit
\* from the dispatch section has released the slot its invocation took and
\* no other; an invocation whose inference call is running is inside the
\* section, so the slot is released only after both calls have finished;
\* an invocation that has left the section has both calls finished; and
\* whenever no invocation is in flight all 10 slots are free.
C34_SlotsReleasedOnEveryExit ==
    /\ semaphore.value + Cardinality(SlotHolders) = SemaphoreSlots
    /\ semaphore.value \in 0..SemaphoreSlots
    /\ \A r \in Req : InferenceRunning(r) => pc[r] = "dispatched"
    /\ \A r \in Req :
           Over(r) /\ calls[r].classify_intent > 0 =>
               IsDone(intent_task[r]) /\ IsDone(entity_task[r])
    /\ (\A r \in Req : pc[r] \in {"none", "created", "done", "failed"}) =>
           semaphore = InitSemaphore

\* no invocation is in flight, all slots are free, and invocations have
\* left the section with both calls returned, with one call failed and
\* with both failed
C34_AllSlotsFreeAfterEveryKindOfExit ==
    /\ \A r \in Req : pc[r] \in {"done", "failed"}
    /\ semaphore = InitSemaphore
    /\ \E r \in Req : pc[r] = "done" /\ calls[r].classify_intent > 0
    /\ \E r \in Req :
           /\ IsDone(intent_task[r]) /\ IsDone(entity_task[r])
           /\ intent_task[r].raised # entity_task[r].raised
    /\ \E r \in Req :
           /\ IsDone(intent_task[r]) /\ IsDone(entity_task[r])
           /\ intent_task[r].raised /\ entity_task[r].raised

\* ----------------------------------------------------------------------
\* Properties of the error of an invocation whose two calls failed
\* ----------------------------------------------------------------------

\* C38: when both inference calls of an invocation raised, the invocation
\* raises the classifier's exception and stores its message in last_error,
\* whichever of the two calls completed first.
C38_IntentErrorReported ==
    [][\A r \in Req :
          (/\ pc[r] = "dispatched" /\ pc'[r] \in {"done", "failed"}
           /\ intent_task[r].raised /\ entity_task[r].raised) =>
              /\ pc'[r] = "failed"
              /\ outcome'[r] = intent_task[r]
              /\ outcome'[r] # entity_task[r]
              /\ metrics'.last_error = intent_task[r].msg]_vars

\* both calls of an invocation failed, the extraction first, and the
\* invocation raised the classifier's exception
C38_EntityFailedFirst ==
    \E r \in Req :
        /\ pc[r] = "failed"
        /\ first[r] = "entity"
        /\ intent_task[r].raised /\ entity_task[r].raised
        /\ outcome[r].msg = "Intent classification failed"
        /\ metrics.last_error = "Intent classification failed"

\* ----------------------------------------------------------------------
\* Properties of the metrics after a successful call
\* ----------------------------------------------------------------------

\* C37: a process_text call that returns, the probe of GET /health
\* included, adds exactly 1 to total_requests and to successful_requests
\* and leaves failed_requests and last_error as they were.
C37_SuccessLeavesFailureFields ==
    [][(/\ JustServed("process_text") \/ JustServed("health")
        /\ ~service'.last.out.raised) =>
           /\ metrics'.total_requests = metrics.total_requests + 1
           /\ metrics'.successful_requests = metrics.successful_requests + 1
           /\ metrics'.failed_requests = metrics.failed_requests
           /\ metrics'.last_error = metrics.last_error]_vars

\* process_text returned on a processor whose last request had failed in
\* its classification, and last_error still holds that failure
C37_SuccessAfterFailure ==
    /\ service.last.op = "process_text"
    /\ ~service.last.out.raised
    /\ service.last.metrics.last_error = "Intent classification failed"
    /\ metrics.last_error = "Intent classification failed"
    /\ metrics.failed_requests = 1
    /\ metrics.successful_requests = service.last.metrics.successful_requests + 1

\* ----------------------------------------------------------------------
\* Properties of the results of the real pipeline
\* ----------------------------------------------------------------------

\* the last call was a process_text of the real pipeline and it returned
PipelineReturned ==
    /\ service.last.op = "process_text"
    /\ "pipeline" \in DOMAIN service.last
    /\ ~service.last.out.raised

\* C35: in every successful process_text result of the real pipeline, with
\* the extractor and the orchestrator at the same confidence threshold,
\* validation_details.entities_valid is true exactly when the entity list
\* is not empty.
C35_EntitiesValidIffSomeEntity ==
    PipelineReturned =>
        LET result == service.last.out.value
        IN  /\ extractor.threshold = DEFAULT_CONFIDENCE_THRESHOLD
            /\ result.validation_details.entities_valid
                    = (result.entities # << >>)

\* the pipeline has returned a result with no entity and entities_valid
\* false, after a call that returned entities and entities_valid true
C35_WithAndWithoutEntities ==
    /\ PipelineReturned
    /\ service.last.out.value.entities = << >>
    /\ ~service.last.out.value.validation_details.entities_valid
    /\ extractor.metrics.successful_extractions > 0
    /\ metrics.successful_requests = 2

\* C36: in every successful process_text result of the real pipeline, with
\* the classifier and the orchestrator at the same confidence threshold,
\* validation_details.intent_valid is true exactly when the intent name is
\* not 'unknown', and with the intent name 'unknown' missing_entities is
\* empty.
C36_IntentValidIffKnown ==
    PipelineReturned =>
        LET result == service.last.out.value
        IN  /\ classifier.threshold = DEFAULT_CONFIDENCE_THRESHOLD
            /\ result.validation_details.intent_valid
                    = (result.intent.name # "unknown")
            /\ result.intent.name = "unknown" =>
                    result.validation_details.missing_entities = {}

\* the pipeline has returned the intent 'unknown' with intent_valid false,
\* and the classifier's cache holds the known intent of another call, one
\* that requires entities
C36_UnknownAfterKnown ==
    /\ PipelineReturned
    /\ service.last.out.value.intent.name = "unknown"
    /\ ~service.last.out.value.validation_details.intent_valid
    /\ \E k \in HashKeys :
           /\ Cached(classifier.cache, k, classifier.now)
           /\ classifier.cache[k].result.intent # "unknown"
           /\ MissingTypes(classifier.cache[k].result.intent, << >>) # {}

\* ----------------------------------------------------------------------
\* Properties of the retry loops
\* ----------------------------------------------------------------------

\* the attempts before which no attempt succeeded, among MAX_RETRIES
\* attempts of which attempt i raises when fails[i]
Reached(fails) ==
    {i \in 1..MAX_RETRIES : \A j \in 1..(i - 1) : fails[j]}

\* C31: tokenize_text invokes the tokenizer at most 3 times per call; the
\* result of the first attempt that succeeds is cached and returned, with
\* no attempt after it; when all 3 attempts fail the call raises
\* RuntimeError, returns nothing and caches nothing.
C31_TokenizerTriedAtMostThreeTimes ==
    [][JustCalled("tokenize_text") =>
         LET last == classifier'.last
             key == Hash(last.text)
             ran == ~classifier.tokens[key].present /\ IsStr(last.text)
         IN  /\ last.attempts <= 3
             /\ ran => last.attempts = Cardinality(Reached(last.fails))
             /\ ran /\ (\E i \in 1..3 : ~last.fails[i]) =>
                    /\ ~last.fails[last.attempts]
                    /\ last.out = Ret(last.text)
                    /\ classifier'.tokens[key] = [present |-> TRUE,
                                                  text |-> last.text]
             /\ ran /\ (\A i \in 1..3 : last.fails[i]) =>
                    /\ last.attempts = 3
                    /\ last.out.raised
                    /\ last.out.cls = "RuntimeError"
                    /\ classifier'.tokens = classifier.tokens
             /\ \A k \in HashKeys : k # key =>
                    classifier'.tokens[k] = classifier.tokens[k]]_vars

\* a tokenize_text call has failed three times and cached nothing, and the
\* cache holds the result of another call under another hash
C31_ThreeFailuresCacheNothing ==
    /\ classifier.last.op = "tokenize_text"
    /\ classifier.last.attempts = 3
    /\ classifier.last.out.raised
    /\ ~classifier.tokens[Hash(classifier.last.text)].present
    /\ \E k \in HashKeys : classifier.tokens[k].present

\* C32: constructing the intent classifier attempts the model load at most
\* 3 times, stops at the first success, and raises RuntimeError after the
\* third failed attempt; a classify_intent call invokes the model at most
\* once and never retries.
C32_LoadTriedAtMostThreeTimes ==
    [][/\ JustCalled("construct") =>
            LET last == classifier'.last
            IN  /\ last.attempts <= 3
                /\ last.attempts = Cardinality(Reached(last.fails))
                /\ (\E i \in 1..3 : ~last.fails[i]) =>
                       /\ ~last.fails[last.attempts]
                       /\ last.out.raised =>
                              last.out.msg # "Model initialization failed"
                /\ (\A i \in 1..3 : last.fails[i]) =>
                       /\ last.attempts = 3
                       /\ last.out = Exc("RuntimeError",
                                         "Model initialization failed")
       /\ JustCalled("classify_intent") =>
            /\ classifier'.inferences <= classifier.inferences + 1
            /\ classifier'.last.ran <= 1
            /\ classifier'.last.out.raised => classifier'.last.ran = 0]_vars

\* a construction has failed after three attempts, and the classifier in
\* use has run an inference
C32_FailedConstructionAfterInference ==
    /\ classifier.last.op = "construct"
    /\ classifier.last.attempts = 3
    /\ classifier.last.out = Exc("RuntimeError", "Model initialization failed")
    /\ classifier.inferences = 1

\* ----------------------------------------------------------------------
\* Properties of the extractor's counters under worker threads
\* ----------------------------------------------------------------------

\* the threads that are inside extract_entities
InsideExtraction ==
    {w \in 1..MaxWorkers : workers[w].pc \in {"extracting", "adding"}}

C40_RequestIdsDistinct ==
    Cardinality(service.request_ids) = service.invocations

\* C40 for the items of one batch: no two of them have the same request id.
C40_BatchItemsDistinct ==
    service.last.op = "process_batch" =>
        \A i, j \in DOMAIN service.last.request_ids :
            i # j => service.last.request_ids[i] # service.last.request_ids[j]

====
